---- MODULE Spec2Model ----
(***************************************************************************)
(* Douyin collection crawlers.  The comment harvest of the pure-API crawler *)
(* (crawl_mix_api.py: fetch_video_comments, fetch_comment_replies), its     *)
(* listing walk and video loop (fetch_mix_videos, crawl_mix, process_video),*)
(* the crawl of MixCrawler (crawl_mix_complete.py) and the listing walk of  *)
(* the Playwright crawler (crawl_mix_playwright.py: get_mix_videos), and    *)
(* process_video of the DrissionPage crawler (crawl_mix_drission.py) with   *)
(* its two harvests, get_video_comments and get_video_comments_api.  Every  *)
(* coroutine is a program counter machine whose steps are cut at its        *)
(* suspension points (feed calls and sleeps); the feed's answers and the    *)
(* file system's are the only nondeterminism.                               *)
(***************************************************************************)
EXTENDS Integers, Sequences, FiniteSets, TLC

\* ------------------------------------------------------------------ bounds
\* comment ids the feed can serve are 1..MaxId
MaxId == 2
\* a feed page carries at most MaxPage items
MaxPage == 2
\* cursors the feed can return are 0..MaxCursor
MaxCursor == 1
\* the crawler is constructed with max_comments in 0..MaxCap
MaxCap == 2
\* reply_comment_total of a served item is in 0..MaxReplyTotal
MaxReplyTotal == 2
\* a collection's listing serves at most MaxVideos records in one run
MaxVideos == 2
\* the operator is asked to clear a captcha at most MaxCaptcha times a video
MaxCaptcha == 1
\* the largest comment count a listed video reports, and the most comments a
\* harvest has returned, where process_video is examined on its own
MaxExpected == 10
MaxActual == 12
\* the most videos a listing holds where the range of crawl_mix is selected
MaxListed == 3
\* the feed calls one of several interleaved harvests makes
MaxTaskCalls == 3

\* --------------------------------------------------------- program constants
\* min(expected_count, 100): the per-comment reply ceiling
ReplyLimit == 100
\* max_comments: int = 2000, the constructor's default
DefaultMaxComments == 2000
\* comment.get('cid', ''): the empty (falsy) identifier
NoCid == 0
\* LARGE_COMMENT_THRESHOLD of DrissionMixCrawler.process_video
LargeCommentThreshold == 1500
\* max_pages of get_video_comments_api
MaxPages == 200
\* `if no_new_count >= 10:` the captcha check of the scroll loop
CaptchaCheckAfter == 10
\* `if stall_rounds >= 6: break`
StallGiveUp == 6

Min(a, b) == IF a < b THEN a ELSE b

\* ------------------------------------------------------------------ state
VARIABLES
    upstream,       \* what the platform holds for this run (the feed's extent)
    max_comments,   \* DouyinAPICrawler.max_comments
    fetch_replies,  \* DouyinAPICrawler.fetch_replies
    total_replies,  \* DouyinAPICrawler.stats['total_replies']
    pc,             \* position of fetch_video_comments / fetch_comment_replies
    comments,       \* fetch_video_comments: comments
    comment_ids,    \* fetch_video_comments: comment_ids
    cursor,         \* fetch_video_comments: cursor
    resp,           \* fetch_video_comments: resp (its has_more and cursor)
    todo,           \* records of resp's comment_list the for loop has yet to read
    replies,        \* fetch_comment_replies: replies
    reply_ids,      \* fetch_comment_replies: reply_ids
    r_cursor,       \* fetch_comment_replies: cursor
    r_resp,         \* fetch_comment_replies: resp (its has_more and cursor)
    r_todo,         \* records of r_resp's comment_list the for loop has yet to read
    expected_count, \* fetch_comment_replies: expected_count
    max_replies,    \* fetch_comment_replies: max_replies
    exit,           \* which statement left the root loop
    r_exit,         \* which statement left the reply loop
    exc,            \* exception propagating out of fetch_video_comments
    crawler,        \* which program runs: "api", "complete" or "playwright"
    crawl_pc,       \* position of the crawl (crawl_mix, crawl_mix_complete,
                    \* get_mix_videos) around the harvest
    crawl_comments, \* argument crawl_comments
    limit,          \* crawl_mix: limit
    videos,         \* fetch_mix_videos, get_mix_videos: videos
    v_cursor,       \* the video-list walk: cursor
    v_resp,         \* the video-list walk: resp (its has_more and cursor)
    v_todo,         \* crawl_mix_complete: videos of the page not yet processed
    video_i,        \* crawl_mix: position of `for video in videos`
    total_videos,   \* stats['total_videos'] / crawl_mix_complete: total_videos
    processed_videos, \* stats['processed_videos']
    failed_videos,  \* stats['failed_videos']
    total_comments, \* stats['total_comments']
    crawl_exit,     \* which statement ended the crawl
    scroll_round,   \* get_video_comments: scroll_round
    no_new_count,   \* get_video_comments: no_new_count
    stall_rounds,   \* get_video_comments: stall_rounds
    last_count,     \* get_video_comments: last_count
    packets,        \* comments of the packets the listener holds for the
                    \* verification pass
    stdin_read,     \* lines input() has read from the operator
    listening,      \* the network listener of the browser is running
    api_page,       \* get_video_comments_api: page
    success_videos, \* stats['success_videos']
    report,         \* what process_video printed about the harvest of its
                    \* video: the coverage and the level of the line
    start,          \* DrissionMixCrawler.crawl_mix: argument start
    end,            \* DrissionMixCrawler.crawl_mix: argument end
    total_original, \* stats['total_original']
    files,          \* the CSV of MixCrawler in each numbered folder: "none" while
                    \* there is no such file, "old" for one that was there
                    \* before the run, "new" for one this run wrote
    tasks           \* the coroutines that run process_video of one
                    \* DouyinAPICrawler side by side, each with its position
                    \* and the lengths of its lists

\* the settings of a crawler, and the state only DrissionMixCrawler has
settings == <<upstream, max_comments, fetch_replies>>
browserVars ==
    <<scroll_round, no_new_count, stall_rounds, last_count,
      packets, stdin_read, listening, api_page, success_videos>>
confVars == <<settings, browserVars, report>>
rootVars == <<comments, comment_ids, cursor, resp, todo, exit>>
replyVars ==
    <<replies, reply_ids, r_cursor, r_resp, r_todo, expected_count, max_replies,
      r_exit>>
harvestVars == <<total_replies, pc, rootVars, replyVars, exc>>
apiVars == <<confVars, harvestVars>>
rangeVars == <<start, end, total_original>>
crawlConf == <<crawler, crawl_comments, limit, rangeVars, tasks, files>>
walkVars == <<videos, v_cursor, v_resp, v_todo>>
statVars == <<total_videos, processed_videos, failed_videos, total_comments>>
crawlVars == <<crawlConf, crawl_pc, walkVars, video_i, statVars, crawl_exit>>

vars == <<apiVars, crawlVars>>

\* ------------------------------------------------------------ the feed
\* The upstreams of a harvest.  A small one serves any record over a few ids, in any
\* order and with any repetition.  A long thread serves one root comment whose
\* reported reply count is around the reply ceiling, and as many distinct
\* replies as are asked for (the n-th reply served is new).
SmallUpstream ==
    [thread |-> FALSE, ids |-> MaxId, page |-> MaxPage, cursors |-> MaxCursor,
     totals |-> MaxReplyTotal, videos |-> 0, reply_only |-> {}, captchas |-> 0]
LongThread ==
    [thread |-> TRUE, ids |-> 1, page |-> 2, cursors |-> 1,
     totals |-> ReplyLimit + 50, videos |-> 0, reply_only |-> {}, captchas |-> 0]
\* two root comments and one more id that only replies carry: a feed whose
\* harvest can hold a root, its reply and the next root
TwoRoots ==
    [thread |-> FALSE, ids |-> 2, page |-> 1, cursors |-> 1, totals |-> 1,
     videos |-> 0, reply_only |-> {3}, captchas |-> 0]
\* the upstream of a whole crawl: a listing of up to MaxVideos records, each
\* video with the smallest comment feed that lets every step of a harvest
\* happen (one id, one record a page, one reply reported)
CrawlUpstream ==
    [thread |-> FALSE, ids |-> 1, page |-> 1, cursors |-> MaxCursor,
     totals |-> 1, videos |-> MaxVideos, reply_only |-> {}, captchas |-> 0]

\* what a video page delivers to the harvests of the browser crawler: packets
\* (and API pages) of one comment over two ids and no captcha; or one id and
\* up to MaxCaptcha captchas; or no comment at all; or comments over two ids
\* that all carry a null text or user
ScrollUpstream ==
    [thread |-> FALSE, ids |-> 2, page |-> 1, cursors |-> 1, totals |-> 0,
     videos |-> 1, reply_only |-> {}, captchas |-> 0, broken |-> FALSE]
CaptchaUpstream ==
    [thread |-> FALSE, ids |-> 1, page |-> 1, cursors |-> 1, totals |-> 0,
     videos |-> 1, reply_only |-> {}, captchas |-> MaxCaptcha,
     broken |-> FALSE]
QuietUpstream ==
    [thread |-> FALSE, ids |-> 0, page |-> 1, cursors |-> 1, totals |-> 0,
     videos |-> 1, reply_only |-> {}, captchas |-> 0, broken |-> FALSE]
NullFieldUpstream ==
    [thread |-> FALSE, ids |-> 2, page |-> 1, cursors |-> 1, totals |-> 0,
     videos |-> 1, reply_only |-> {}, captchas |-> 0, broken |-> TRUE]

Cids == 1..upstream.ids
Cursors == 0..upstream.cursors

\* A replayed feed answers a request by its cursor alone: upstream.root and
\* upstream.reply give, for each cursor, the response and the records of its
\* page.  The other upstreams answer a request in any way.
Scripted == "root" \in DOMAIN upstream

\* A raw record of a page.  dict = FALSE is a malformed record (not a mapping):
\* the first .get on it raises.
BadItem == [cid |-> NoCid, reply_comment_total |-> 0, dict |-> FALSE]

\* the records of a replayed page are read in no fixed order
RootItemsAnyOrder ==
    LET served == upstream.root[cursor]
    IN  {served.items[k] : k \in 1..served.count}

RootItems ==
    IF Scripted
    THEN LET served == upstream.root[cursor]
         IN  {served.items[served.count - todo]}
    ELSE IF upstream.thread
    THEN {[cid |-> 1, reply_comment_total |-> n, dict |-> TRUE] :
            n \in {ReplyLimit - 1, ReplyLimit, ReplyLimit + 1, upstream.totals}}
    ELSE {[cid |-> c, reply_comment_total |-> n, dict |-> TRUE] :
            c \in Cids \cup {NoCid}, n \in 0..upstream.totals} \cup {BadItem}

ReplyItems ==
    IF Scripted
    THEN LET served == upstream.reply[r_cursor]
         IN  {served.items[served.count - r_todo]}
    ELSE IF upstream.thread
    THEN {[cid |-> Len(replies) + 2, reply_comment_total |-> 0, dict |-> TRUE]}
    ELSE {[cid |-> c, reply_comment_total |-> 0, dict |-> TRUE] :
            c \in Cids \cup upstream.reply_only \cup {NoCid}} \cup {BadItem}

\* What one awaited feed call can do: raise an Exception, be interrupted
\* (KeyboardInterrupt / cancellation, a BaseException), return a falsy value
\* (None, {}), or return a page.  A page is walked by a for loop, and its
\* records are drawn as the loop reads them: the response carries their number.
NoPage(k) == [kind |-> k, count |-> 0, has_more |-> FALSE, cursor |-> 0]

\* what the loop keeps of a page past its records: lines 205-206, 256-257
PageInfo(r) == [has_more |-> r.has_more, cursor |-> r.cursor]
NoResp == [has_more |-> FALSE, cursor |-> 0]

Responses ==
    {NoPage("raise"), NoPage("interrupt"), NoPage("falsy")} \cup
    {[kind |-> "page", count |-> n, has_more |-> h, cursor |-> c] :
        n \in 0..upstream.page, h \in BOOLEAN, c \in Cursors}

\* the responses of `self.api.fetch_video_comments(aweme_id, cursor, count)`
\* (lines 168-170) and of `self.api.fetch_video_comments_reply(item_id,
\* comment_id, cursor, count)` (lines 230-235)
RootFeed == IF Scripted THEN {upstream.root[cursor]} ELSE Responses
ReplyFeed == IF Scripted THEN {upstream.reply[r_cursor]} ELSE Responses

\* _parse_comment: the fields of the parsed record the harvest logic reads
ParseComment(item, level) == [comment_id |-> item.cid, level |-> level]

\* the except clause left out: nothing is caught
ExceptNothing(kind) == FALSE

\* `except Exception` catches Exception, not KeyboardInterrupt / CancelledError
ExceptException(kind) == kind = "raise"

\* the emptiness test left out: only a registered identifier is skipped
SkippedSeenOnly(cid, ids) == cid \in ids

\* the membership test left out: only an empty identifier is skipped
SkippedNoRegistry(cid, ids) == cid = NoCid

\* `if not cid or cid in comment_ids: continue` (the Dedup Registry's Seen)
Skipped(cid, ids) == cid = NoCid \/ cid \in ids

\* `if len(comments) >= self.max_comments: break` inside the for loop
CapReached(cs) == Len(cs) >= max_comments

\* a ceiling of twice the size
MaxRepliesLooseCeiling(expected) == Min(expected, 2 * ReplyLimit)

\* the ceiling left out: max_replies = expected_count
MaxRepliesNoCeiling(expected) == expected

\* `max_replies = min(expected_count, 100)`
MaxReplies(expected) == Min(expected, ReplyLimit)

\* `while len(replies) < max_replies:` and `if len(replies) >= max_replies: break`
EnoughReplies(rs) == Len(rs) >= max_replies

\* the has_more test left out: `if new_cursor == cursor: break`
LastPageCursorOnly(has_more, new_cursor, cur) == new_cursor = cur

\* the cursor comparison left out: `if not has_more: break`
LastPageNoCursorCheck(has_more, new_cursor, cur) == ~has_more

\* `if not has_more or new_cursor == cursor: break`
LastPage(has_more, new_cursor, cur) == ~has_more \/ new_cursor = cur

\* the frame of fetch_comment_replies before it is entered and after it is gone
NoReplyFrame ==
    /\ replies = <<>>
    /\ reply_ids = {}
    /\ r_cursor = 0
    /\ r_resp = NoResp
    /\ r_todo = 0
    /\ expected_count = 0
    /\ max_replies = 0
    /\ r_exit = "none"

\* entry of fetch_video_comments: comments = [], comment_ids = set(), cursor = 0
HarvestStart ==
    /\ pc = "root_head"
    /\ comments = <<>>
    /\ comment_ids = {}
    /\ cursor = 0
    /\ resp = NoResp
    /\ todo = 0
    /\ exit = "none"
    /\ exc = "none"
    /\ NoReplyFrame

\* no harvest is in progress: its frames do not exist
HarvestIdle ==
    /\ pc = "idle"
    /\ comments = <<>>
    /\ comment_ids = {}
    /\ cursor = 0
    /\ resp = NoResp
    /\ todo = 0
    /\ exit = "none"
    /\ exc = "none"
    /\ NoReplyFrame

\* no output file is looked at
NoFiles == files = <<>>

\* crawl_mix is not given a range and has not counted a listing
NoRange ==
    /\ start = 0
    /\ end = 0
    /\ total_original = 0

\* the coverage process_video computes: actual_count / total_expected * 100,
\* and 0 when nothing is expected (crawl_mix_api.py line 374,
\* crawl_mix_playwright.py lines 1042 and 1069, crawl_mix_drission.py line
\* 1310).  The code compares it with 80 and 50 only; its integer part, which
\* is kept here, compares with them as the quotient does.
Coverage(actual_count, total_expected) ==
    IF total_expected > 0 THEN (actual_count * 100) \div total_expected ELSE 0

\* DouyinAPICrawler.process_video, lines 380-383: the level of the log line
ApiLevel(coverage) == IF coverage >= 50 THEN "success" ELSE "warning"

\* the partial line left out: two sorts of line only
PlaywrightLineTwoSorts(coverage) ==
    IF coverage >= 80 THEN "success" ELSE "poor"

\* PlaywrightMixCrawler.process_video, lines 1044-1050: which line is printed
PlaywrightLine(coverage) ==
    IF coverage >= 80 THEN "success"
    ELSE IF coverage >= 50 THEN "partial"
    ELSE "poor"

\* DrissionMixCrawler.process_video, lines 1316-1319: the level of the log line
DrissionLevel(coverage) == IF coverage >= 80 THEN "success" ELSE "warning"

\* nothing was printed about a harvest
NoReport == [coverage |-> -1, level |-> "none"]

\* no browser harvest runs, no video has succeeded, nothing was printed,
\* and no coroutine runs beside the one that is followed
NoBrowser ==
    /\ tasks = <<>>
    /\ report = NoReport
    /\ scroll_round = 0
    /\ no_new_count = 0
    /\ stall_rounds = 0
    /\ last_count = 0
    /\ packets = <<>>
    /\ stdin_read = 0
    /\ listening = FALSE
    /\ api_page = 0
    /\ success_videos = 0

\* the counters of a fresh crawler (lines 77-83) and an empty walk
CrawlStart ==
    /\ NoBrowser
    /\ videos = <<>>
    /\ v_cursor = 0
    /\ v_resp = NoResp
    /\ v_todo = 0
    /\ video_i = 0
    /\ total_videos = 0
    /\ processed_videos = 0
    /\ failed_videos = 0
    /\ total_comments = 0
    /\ crawl_exit = "none"

\* fetch_video_comments is called on its own: no crawl surrounds it
NoCrawl ==
    /\ crawler = "api"
    /\ crawl_pc = "none"
    /\ crawl_comments = TRUE
    /\ limit = 0
    /\ NoRange
    /\ NoFiles
    /\ CrawlStart

\* one call of fetch_video_comments on a fresh crawler: any cap and either
\* reply setting over the small upstream, the defaults over the long thread
\* and over the two roots, and the smallest cap over the long thread
Init ==
    /\ NoCrawl
    /\ \/ /\ upstream = SmallUpstream
          /\ max_comments \in 0..MaxCap
          /\ fetch_replies \in BOOLEAN
       \/ /\ upstream \in {LongThread, TwoRoots}
          /\ max_comments = DefaultMaxComments
          /\ fetch_replies = TRUE
       \/ /\ upstream = LongThread
          /\ max_comments = 1
          /\ fetch_replies = TRUE
    /\ total_replies = 0
    /\ HarvestStart

\* ------------------------------------------------- fetch_video_comments
\* `while len(comments) < self.max_comments:`; a true condition issues the
\* root-page request, a false one falls to `return comments`
RootLoop ==
    /\ pc = "root_head"
    /\ IF Len(comments) < max_comments
       THEN pc' = "root_call" /\ exit' = exit
       ELSE pc' = "returned" /\ exit' = "cap"
    /\ UNCHANGED <<crawlVars, confVars, total_replies,
                   comments, comment_ids, cursor, resp,
                   todo, replyVars, exc>>

\* leaving the root loop through a break or the except clause, then
\* `return comments`
RootBreak(why) ==
    /\ pc' = "returned"
    /\ exit' = why

\* an exception raised inside the root loop's try block (lines 167-216)
RootRaise(kind) ==
    IF ExceptException(kind)
    THEN RootBreak("exception") /\ exc' = exc
    ELSE pc' = "raised" /\ exit' = exit /\ exc' = kind

\* the awaited root-page call returns: lines 168-177
RootResponse ==
    /\ pc = "root_call"
    /\ \E r \in RootFeed :
        CASE r.kind \in {"raise", "interrupt"} ->
                /\ RootRaise(r.kind)
                /\ UNCHANGED <<resp, todo>>
          [] r.kind = "falsy" ->
                /\ RootBreak("resp_empty")
                /\ UNCHANGED <<resp, todo, exc>>
          [] r.kind = "page" /\ r.count = 0 ->
                /\ RootBreak("list_empty")
                /\ UNCHANGED <<resp, todo, exc>>
          [] OTHER ->
                /\ resp' = PageInfo(r)
                /\ todo' = r.count - 1
                /\ pc' = "root_item"
                /\ UNCHANGED <<exit, exc>>
    /\ UNCHANGED <<crawlVars, confVars, total_replies,
                   comments, comment_ids, cursor, replyVars>>

\* lines 204-211, after the for loop: the has_more / cursor check.  Nothing
\* suspends between the loop's last item and this check.
RootPageEnd ==
    /\ todo' = 0
    /\ IF LastPage(resp.has_more, resp.cursor, cursor)
       THEN /\ RootBreak(IF ~resp.has_more THEN "no_more" ELSE "same_cursor")
            /\ cursor' = cursor
       ELSE /\ cursor' = resp.cursor
            /\ pc' = "root_sleep"
            /\ exit' = exit

\* the for loop of fetch_video_comments moves to its next item, or falls out
\* of the page
NextItem ==
    IF todo > 0
    THEN pc' = "root_item" /\ todo' = todo - 1 /\ UNCHANGED <<cursor, exit>>
    ELSE RootPageEnd

\* the for loop is left after the first record appended, whatever the cap
AfterItemLeaves(cs) == RootPageEnd

\* after an item (and its replies) was appended: the cap check of the for loop
AfterItem(cs) ==
    IF CapReached(cs)
    THEN RootPageEnd
    ELSE NextItem

\* one iteration of `for comment in comment_list:` up to the reply fetch
RootItem ==
    /\ pc = "root_item"
    /\ \E comment \in RootItems :
       LET cid == comment.cid
           reply_count == comment.reply_comment_total
       IN  IF ~comment.dict
           THEN /\ RootRaise("raise")
                /\ UNCHANGED <<comments, comment_ids, cursor, todo, replyVars>>
           ELSE IF Skipped(cid, comment_ids)
           THEN /\ NextItem
                /\ UNCHANGED <<comments, comment_ids, exc, replyVars>>
           ELSE /\ comment_ids' = comment_ids \cup {cid}
                /\ comments' = Append(comments, ParseComment(comment, 1))
                /\ exc' = exc
                /\ IF fetch_replies /\ reply_count > 0
                   THEN /\ pc' = "reply_head"
                        /\ expected_count' = reply_count
                        /\ max_replies' = MaxReplies(reply_count)
                        /\ UNCHANGED <<cursor, todo, exit, replies, reply_ids,
                                       r_cursor, r_resp, r_todo, r_exit>>
                   ELSE /\ AfterItem(comments')
                        /\ UNCHANGED replyVars
    /\ UNCHANGED <<crawlVars, confVars, total_replies, resp>>

\* `await asyncio.sleep(0.3)`, then back to the while condition
RootSleep ==
    /\ pc = "root_sleep"
    /\ pc' = "root_head"
    /\ UNCHANGED <<crawlVars, confVars, total_replies,
                   rootVars, replyVars, exc>>

\* ------------------------------------------------ fetch_comment_replies
\* `while len(replies) < max_replies:`
ReplyLoop ==
    /\ pc = "reply_head"
    /\ IF ~EnoughReplies(replies)
       THEN pc' = "reply_call" /\ r_exit' = r_exit
       ELSE pc' = "reply_return" /\ r_exit' = "cap"
    /\ UNCHANGED <<crawlVars, confVars, total_replies,
                   rootVars, replies, reply_ids,
                   r_cursor, r_resp, r_todo, expected_count, max_replies, exc>>

\* an exception raised inside the reply loop's try block (lines 229-267); one
\* that its except clause does not catch leaves fetch_video_comments too
ReplyRaise(kind) ==
    IF ExceptException(kind)
    THEN pc' = "reply_return" /\ r_exit' = "exception" /\ exc' = exc
    ELSE pc' = "raised" /\ r_exit' = r_exit /\ exc' = kind

\* the awaited reply-page call returns: lines 230-242
ReplyResponse ==
    /\ pc = "reply_call"
    /\ \E r \in ReplyFeed :
        CASE r.kind \in {"raise", "interrupt"} ->
                /\ ReplyRaise(r.kind)
                /\ UNCHANGED <<r_resp, r_todo>>
          [] r.kind = "falsy" ->
                /\ pc' = "reply_return"
                /\ r_exit' = "resp_empty"
                /\ UNCHANGED <<r_resp, r_todo, exc>>
          [] r.kind = "page" /\ r.count = 0 ->
                /\ pc' = "reply_return"
                /\ r_exit' = "list_empty"
                /\ UNCHANGED <<r_resp, r_todo, exc>>
          [] OTHER ->
                /\ r_resp' = PageInfo(r)
                /\ r_todo' = r.count - 1
                /\ pc' = "reply_item"
                /\ UNCHANGED <<r_exit, exc>>
    /\ UNCHANGED <<crawlVars, confVars, total_replies,
                   rootVars, replies, reply_ids, r_cursor,
                   expected_count, max_replies>>

\* lines 256-263, after the for loop: the has_more / cursor check
ReplyPageEnd ==
    /\ r_todo' = 0
    /\ IF LastPage(r_resp.has_more, r_resp.cursor, r_cursor)
       THEN /\ pc' = "reply_return"
            /\ r_exit' = IF ~r_resp.has_more THEN "no_more" ELSE "same_cursor"
            /\ r_cursor' = r_cursor
       ELSE /\ pc' = "reply_sleep"
            /\ r_exit' = r_exit
            /\ r_cursor' = r_resp.cursor

\* the for loop of fetch_comment_replies moves to its next item, or falls out
\* of the page
NextReply ==
    IF r_todo > 0
    THEN pc' = "reply_item" /\ r_todo' = r_todo - 1 /\ UNCHANGED <<r_cursor, r_exit>>
    ELSE ReplyPageEnd

\* one iteration of `for reply in comment_list:` (lines 244-254)
ReplyItem ==
    /\ pc = "reply_item"
    /\ \E reply \in ReplyItems :
       LET reply_id == reply.cid
       IN  IF ~reply.dict
           THEN /\ ReplyRaise("raise")
                /\ UNCHANGED <<replies, reply_ids, r_cursor, r_todo>>
           ELSE IF Skipped(reply_id, reply_ids)
           THEN /\ NextReply
                /\ UNCHANGED <<replies, reply_ids, exc>>
           ELSE /\ reply_ids' = reply_ids \cup {reply_id}
                /\ replies' = Append(replies, ParseComment(reply, 2))
                /\ exc' = exc
                /\ IF EnoughReplies(replies')
                   THEN ReplyPageEnd
                   ELSE NextReply
    /\ UNCHANGED <<crawlVars, confVars, total_replies,
                   rootVars, r_resp, expected_count,
                   max_replies>>

\* `await asyncio.sleep(0.2)`, then back to the while condition
ReplySleep ==
    /\ pc = "reply_sleep"
    /\ pc' = "reply_head"
    /\ UNCHANGED <<crawlVars, confVars, total_replies,
                   rootVars, replyVars, exc>>

\* the replies are put in front of what was harvested before
MergeRepliesFront(rs, i, cs, ids) ==
    [comments |-> rs \o cs,
     comment_ids |-> ids \cup {rs[k].comment_id : k \in 1..Len(rs)}]

\* lines 196-199: the replies not yet in comment_ids are appended, in order
RECURSIVE MergeReplies(_, _, _, _)
MergeReplies(rs, i, cs, ids) ==
    IF i > Len(rs)
    THEN [comments |-> cs, comment_ids |-> ids]
    ELSE IF rs[i].comment_id \notin ids
    THEN MergeReplies(rs, i + 1, Append(cs, rs[i]), ids \cup {rs[i].comment_id})
    ELSE MergeReplies(rs, i + 1, cs, ids)

\* fetch_comment_replies returns (lines 269-270), its frame is gone, and
\* fetch_video_comments merges what it returned, then checks the cap
\* (lines 196-202)
ReplyReturn ==
    /\ pc = "reply_return"
    /\ total_replies' = total_replies + Len(replies)
    /\ LET merged == MergeReplies(replies, 1, comments, comment_ids)
       IN  /\ comments' = merged.comments
           /\ comment_ids' = merged.comment_ids
           /\ AfterItem(merged.comments)
    /\ replies' = <<>>
    /\ reply_ids' = {}
    /\ r_cursor' = 0
    /\ r_resp' = NoResp
    /\ r_todo' = 0
    /\ expected_count' = 0
    /\ max_replies' = 0
    /\ r_exit' = "none"
    /\ UNCHANGED <<crawlVars, confVars, resp, exc>>

Next ==
    \/ RootLoop
    \/ RootResponse
    \/ RootItem
    \/ RootSleep
    \/ ReplyLoop
    \/ ReplyResponse
    \/ ReplyItem
    \/ ReplySleep
    \/ ReplyReturn

Spec == Init /\ [][Next]_vars

\* ---------------------------------------------------- a replayed feed
\* the records and responses of a replayed feed
ScriptItem(c, n) == [cid |-> c, reply_comment_total |-> n, dict |-> TRUE]
ScriptPage(items, h, c) ==
    [kind |-> "page", count |-> Len(items), has_more |-> h, cursor |-> c,
     items |-> items]
ScriptStop(k) ==
    [kind |-> k, count |-> 0, has_more |-> FALSE, cursor |-> 0, items |-> <<>>]
SeqsUpTo(S, n) == UNION {[1..k -> S] : k \in 0..n}
ScriptResponses(S, n) ==
    {ScriptStop("raise"), ScriptStop("falsy")} \cup
    {ScriptPage(items, h, c) :
        items \in SeqsUpTo(S, n), h \in BOOLEAN, c \in 0..1}
ScriptFeed(a, b) == [c \in 0..1 |-> IF c = 0 THEN a ELSE b]

\* root pages of up to two records over three ids, followed by a page of at
\* most one record; no reply is asked for
RootChains ==
    LET items == {ScriptItem(c, 0) : c \in 0..3} \cup {BadItem}
    IN  {[thread |-> FALSE, ids |-> 3, page |-> 2, cursors |-> 1, totals |-> 0,
          videos |-> 0, reply_only |-> {}, captchas |-> 0,
          root |-> ScriptFeed(a, b),
          reply |-> ScriptFeed(ScriptStop("falsy"), ScriptStop("falsy"))] :
            a \in ScriptResponses(items, 2), b \in ScriptResponses(items, 1)}

\* one root page of one or two comments that may report a reply, and a reply
\* feed of two pages of at most one record
Threads ==
    LET roots == {ScriptItem(c, n) : c \in 1..2, n \in 0..1}
        answers == {ScriptItem(c, 0) : c \in 0..3} \cup {BadItem}
    IN  {[thread |-> FALSE, ids |-> 3, page |-> 2, cursors |-> 1, totals |-> 1,
          videos |-> 0, reply_only |-> {}, captchas |-> 0,
          root |-> ScriptFeed(ScriptPage(items, FALSE, 0), ScriptStop("falsy")),
          reply |-> ScriptFeed(a, ScriptPage(<<ScriptItem(c, 0)>>, FALSE, 1))] :
            items \in SeqsUpTo(roots, 2) \ {<<>>},
            a \in ScriptResponses(answers, 1), c \in 1..3}

\* one call of fetch_video_comments against a replayed feed
InitReplay ==
    /\ NoCrawl
    /\ \/ upstream \in RootChains /\ fetch_replies = FALSE
       \/ upstream \in Threads /\ fetch_replies = TRUE
    /\ max_comments \in 1..MaxCap \cup {DefaultMaxComments}
    /\ total_replies = 0
    /\ HarvestStart

SpecReplay == InitReplay /\ [][Next]_vars

\* the event loop runs a coroutine that can run: its next step is taken
FairSpec == Spec /\ WF_vars(Next)

\* ======================================================= the video listing
\* A raw record of a listing page: its aweme_id (NoCid when empty or absent)
\* and statistics.comment_count.  dict = FALSE is a record the walk or the
\* metadata extraction cannot read (not a mapping, a null sub-field).
BadVideo == [aweme_id |-> NoCid, comment_count |-> 0, dict |-> FALSE]

VideoItems ==
    {[aweme_id |-> a, comment_count |-> n, dict |-> TRUE] :
        a \in {NoCid, 1}, n \in {0, 1}} \cup {BadVideo}

\* what one listing call can do; a page carries at most `room` records
ListResponses(room) ==
    {NoPage("raise"), NoPage("interrupt"), NoPage("falsy")} \cup
    {[kind |-> "page", count |-> n, has_more |-> h, cursor |-> c] :
        n \in 0..Min(upstream.page, room), h \in BOOLEAN, c \in Cursors}

\* the aweme_list of a page with n records
VideoPages(n) == [1..n -> VideoItems]

\* the video record both walks build from a listing record
VideoOf(item) == [aweme_id |-> item.aweme_id, comment_count |-> item.comment_count]

\* ------------------------------------------ DouyinAPICrawler.fetch_mix_videos
\* `for item in aweme_list:` (lines 115-134): a record without aweme_id is
\* passed over, a record that cannot be read raises out of the loop
RECURSIVE AppendVideos(_, _, _)
AppendVideos(page, i, vs) ==
    IF i > Len(page)
    THEN [videos |-> vs, raised |-> FALSE]
    ELSE IF ~page[i].dict
    THEN [videos |-> vs, raised |-> TRUE]
    ELSE IF page[i].aweme_id = NoCid
    THEN AppendVideos(page, i + 1, vs)
    ELSE AppendVideos(page, i + 1, Append(vs, VideoOf(page[i])))

\* leaving `while True:` (break or except), lines 154-156: the walk returns
WalkEnd(vs) ==
    /\ total_videos' = Len(vs)
    /\ crawl_pc' = "listed"
    /\ crawl_exit' = crawl_exit

\* an interruption is no Exception: it leaves fetch_mix_videos and crawl_mix
CrawlInterrupted ==
    /\ crawl_pc' = "raised"
    /\ crawl_exit' = "interrupt"

\* the awaited listing call of fetch_mix_videos returns: lines 102-152
WalkResponse ==
    /\ crawler = "api"
    /\ crawl_pc = "walk_call"
    /\ \E r \in ListResponses(upstream.videos - Len(videos)) :
        CASE r.kind = "interrupt" ->
                /\ CrawlInterrupted
                /\ UNCHANGED <<videos, v_cursor, total_videos>>
          [] r.kind \in {"raise", "falsy"} \/ (r.kind = "page" /\ r.count = 0) ->
                /\ WalkEnd(videos)
                /\ UNCHANGED <<videos, v_cursor>>
          [] OTHER ->
                \E page \in VideoPages(r.count) :
                    LET a == AppendVideos(page, 1, videos)
                    IN  /\ videos' = a.videos
                        /\ IF a.raised \/ ~r.has_more \/ r.cursor = v_cursor
                           THEN WalkEnd(a.videos) /\ v_cursor' = v_cursor
                           ELSE /\ v_cursor' = r.cursor
                                /\ crawl_pc' = "walk_sleep"
                                /\ UNCHANGED <<total_videos, crawl_exit>>
    /\ UNCHANGED <<apiVars, crawlConf, v_resp, v_todo, video_i, processed_videos,
                   failed_videos, total_comments>>

\* `await asyncio.sleep(0.5)`, then the next listing call
WalkSleep ==
    /\ crawler = "api"
    /\ crawl_pc = "walk_sleep"
    /\ crawl_pc' = "walk_call"
    /\ UNCHANGED <<apiVars, crawlConf, walkVars, video_i, statVars, crawl_exit>>

\* ------------------------------------------------ DouyinAPICrawler.crawl_mix
\* lines 507-516: nothing listed ends the crawl; a positive limit cuts the list
CrawlListed ==
    /\ crawler = "api"
    /\ crawl_pc = "listed"
    /\ IF videos = <<>>
       THEN /\ crawl_pc' = "finished"
            /\ crawl_exit' = "no_videos"
            /\ UNCHANGED <<videos, total_videos, video_i>>
       ELSE /\ IF limit > 0
               THEN /\ videos' = SubSeq(videos, 1, Min(limit, Len(videos)))
                    /\ total_videos' = Len(videos')
               ELSE UNCHANGED <<videos, total_videos>>
            /\ video_i' = 1
            /\ crawl_pc' = "video"
            /\ crawl_exit' = crawl_exit
    /\ UNCHANGED <<apiVars, crawlConf, v_cursor, v_resp, v_todo, processed_videos,
                   failed_videos, total_comments>>

\* the video's failure ends the loop
AfterFailureBreak(kind) == "break"

\* the except clauses of the video loop (lines 523-529): KeyboardInterrupt
\* breaks, any Exception is counted and the loop continues
AfterFailure(kind) == IF kind = "interrupt" THEN "break" ELSE "continue"

\* an exception leaves process_video and reaches the video loop.  The break
\* is taken on KeyboardInterrupt; a cancellation matches neither clause and
\* leaves crawl_mix.
VideoRaise(kind) ==
    IF AfterFailure(kind) = "continue"
    THEN /\ failed_videos' = failed_videos + 1
         /\ video_i' = video_i + 1
         /\ crawl_pc' = "video"
         /\ crawl_exit' = crawl_exit
    ELSE /\ crawl_pc' \in (IF kind = "interrupt" THEN {"finished", "raised"}
                                                  ELSE {"finished"})
         /\ crawl_exit' = kind
         /\ UNCHANGED <<failed_videos, video_i>>

\* entry of fetch_video_comments from process_video (lines 160-164)
HarvestEnter ==
    /\ pc' = "root_head"
    /\ comments' = <<>>
    /\ comment_ids' = {}
    /\ cursor' = 0
    /\ UNCHANGED <<total_replies, resp, todo, exit, replyVars, exc>>

\* the frames of a harvest that is over are gone
HarvestLeave ==
    /\ pc' = "idle"
    /\ comments' = <<>>
    /\ comment_ids' = {}
    /\ cursor' = 0
    /\ resp' = NoResp
    /\ todo' = 0
    /\ exit' = "none"
    /\ exc' = "none"
    /\ replies' = <<>>
    /\ reply_ids' = {}
    /\ r_cursor' = 0
    /\ r_resp' = NoResp
    /\ r_todo' = 0
    /\ expected_count' = 0
    /\ max_replies' = 0
    /\ r_exit' = "none"

\* `for video in videos:` takes its next video, or the list is exhausted and
\* the crawl prints its statistics; then process_video up to its first await
\* (lines 329-369): the folder is made, the title is cut, and the harvest is
\* entered if comments are wanted and the listing reports some
ProcessVideo ==
    /\ crawler = "api"
    /\ crawl_pc = "video"
    /\ IF video_i > Len(videos)
       THEN /\ crawl_pc' = "finished"
            /\ crawl_exit' = "done"
            /\ UNCHANGED <<harvestVars, video_i, failed_videos>>
       ELSE \E env \in {"ok", "raise"} :
            IF env = "raise"
            THEN /\ VideoRaise("raise")
                 /\ UNCHANGED harvestVars
            ELSE /\ IF crawl_comments /\ videos[video_i].comment_count > 0
                    THEN crawl_pc' = "harvest" /\ HarvestEnter
                    ELSE crawl_pc' = "save" /\ UNCHANGED harvestVars
                 /\ UNCHANGED <<video_i, failed_videos, crawl_exit>>
    /\ report' = (IF video_i > Len(videos) THEN report ELSE NoReport)
    /\ UNCHANGED <<settings, browserVars, crawlConf, walkVars, total_videos,
                   processed_videos, total_comments>>

\* fetch_video_comments is over: process_video counts what it returned
\* (lines 371-383), or the exception it let through goes on to the video loop
VideoHarvested ==
    /\ crawler = "api"
    /\ crawl_pc = "harvest"
    /\ pc \in {"returned", "raised"}
    /\ IF pc = "returned"
       THEN /\ total_comments' = total_comments + Len(comments)
            /\ LET coverage == Coverage(Len(comments),
                                        videos[video_i].comment_count)
               IN  report' = [coverage |-> coverage,
                              level |-> ApiLevel(coverage)]
            /\ crawl_pc' = "save"
            /\ UNCHANGED <<video_i, failed_videos, crawl_exit>>
       ELSE /\ VideoRaise(exc)
            /\ UNCHANGED <<total_comments, report>>
    /\ HarvestLeave
    /\ UNCHANGED <<settings, browserVars, total_replies, crawlConf, walkVars,
                   total_videos, processed_videos>>

\* lines 385-395: _save_csv and _save_json (neither catches), then
\* `self.stats['processed_videos'] += 1` as the last statement
SaveVideo ==
    /\ crawler = "api"
    /\ crawl_pc = "save"
    /\ \E env \in {"ok", "raise"} :
        IF env = "raise"
        THEN /\ VideoRaise("raise")
             /\ processed_videos' = processed_videos
        ELSE /\ processed_videos' = processed_videos + 1
             /\ crawl_pc' = "video_sleep"
             /\ UNCHANGED <<video_i, failed_videos, crawl_exit>>
    /\ UNCHANGED <<apiVars, crawlConf, walkVars, total_videos, total_comments>>

\* `await asyncio.sleep(1)`, then the next video
VideoSleep ==
    /\ crawler = "api"
    /\ crawl_pc = "video_sleep"
    /\ video_i' = video_i + 1
    /\ crawl_pc' = "video"
    /\ UNCHANGED <<apiVars, crawlConf, walkVars, statVars, crawl_exit>>

\* ============================================ MixCrawler (crawl_mix_complete.py)
\* The harvest of MixCrawler runs in the frames of the harvest above:
\* comments holds get_all_comments' collected, cursor / resp / todo its cursor,
\* page and for loop; replies, r_cursor, r_resp, r_todo and max_replies hold
\* get_comment_replies' replies, cursor, page, for loop and max_needed.

\* format_comment_row: the fields of a row the harvest logic is about
\* the parent id is left at its default
FormatCommentRowNoParent(item, level, parent_id) ==
    [comment_id |-> item.cid, level |-> level, parent_id |-> NoCid]

FormatCommentRow(item, level, parent_id) ==
    [comment_id |-> item.cid, level |-> level, parent_id |-> parent_id]

\* ------------------------------------------------ MixCrawler.get_all_comments
\* what a comment-page call can return.  The long thread has one root comment:
\* it comes alone on its page, and the pages after it are empty.
RootResponses ==
    IF upstream.thread
    THEN {r \in Responses : r.count <= (IF comments = <<>> THEN 1 ELSE 0)}
    ELSE Responses

\* the whole cap is handed on
MaxNeededWhole(collected) == max_comments

\* `max_needed=self.max_comments - len(collected)` (line 227)
MaxNeeded(collected) == max_comments - Len(collected)

\* `while len(collected) < self.max_comments:`
AllCommentsLoop ==
    /\ pc = "all_head"
    /\ IF Len(comments) < max_comments
       THEN pc' = "all_call" /\ exit' = exit
       ELSE pc' = "returned" /\ exit' = "cap"
    /\ UNCHANGED <<crawlVars, confVars, total_replies, comments, comment_ids,
                   cursor, resp, todo, replyVars, exc>>

\* an exception raised inside the try block of get_all_comments (lines
\* 209-242): `except Exception` breaks, anything else leaves the function
AllCommentsRaise(kind) ==
    IF ExceptException(kind)
    THEN pc' = "returned" /\ exit' = "exception" /\ exc' = exc
    ELSE pc' = "raised" /\ exit' = exit /\ exc' = kind

\* the awaited comment-page call returns: lines 210-217
AllCommentsResponse ==
    /\ pc = "all_call"
    /\ \E r \in RootResponses :
        CASE r.kind \in {"raise", "interrupt"} ->
                /\ AllCommentsRaise(r.kind)
                /\ UNCHANGED <<resp, todo>>
          [] r.kind = "falsy" ->
                /\ RootBreak("resp_empty")
                /\ UNCHANGED <<resp, todo, exc>>
          [] r.kind = "page" /\ r.count = 0 ->
                /\ RootBreak("list_empty")
                /\ UNCHANGED <<resp, todo, exc>>
          [] OTHER ->
                /\ resp' = PageInfo(r)
                /\ todo' = r.count - 1
                /\ pc' = "all_item"
                /\ UNCHANGED <<exit, exc>>
    /\ UNCHANGED <<crawlVars, confVars, total_replies, comments, comment_ids,
                   cursor, replyVars>>

\* lines 234-238, after the for loop: the cursor is taken over before has_more
\* is looked at, and only has_more decides
AllCommentsPageEnd ==
    /\ todo' = 0
    /\ cursor' = resp.cursor
    /\ IF ~resp.has_more
       THEN RootBreak("no_more")
       ELSE pc' = "all_sleep" /\ exit' = exit

\* `if len(collected) >= self.max_comments: break`, else the next record
AllCommentsNext(cs) ==
    IF Len(cs) < max_comments /\ todo > 0
    THEN pc' = "all_item" /\ todo' = todo - 1 /\ UNCHANGED <<cursor, exit>>
    ELSE AllCommentsPageEnd

\* one iteration of `for c in comments:` up to the reply fetch (lines 219-229);
\* reply_total, read at line 222, is kept in expected_count while the reply
\* fetch runs
AllCommentsItem ==
    /\ pc = "all_item"
    /\ \E c \in RootItems :
       IF ~c.dict
       THEN /\ AllCommentsRaise("raise")
            /\ UNCHANGED <<comments, cursor, todo, max_replies, expected_count>>
       ELSE /\ comments' = Append(comments, FormatCommentRow(c, 1, NoCid))
            /\ exc' = exc
            /\ IF c.reply_comment_total > 0 /\ Len(comments') < max_comments
               THEN /\ pc' = "needed_head"
                    /\ expected_count' = c.reply_comment_total
                    /\ max_replies' = MaxNeeded(comments')
                    /\ UNCHANGED <<cursor, todo, exit>>
               ELSE /\ AllCommentsNext(comments')
                    /\ UNCHANGED <<max_replies, expected_count>>
    /\ UNCHANGED <<crawlVars, confVars, total_replies, comment_ids, resp, replies,
                   reply_ids, r_cursor, r_resp, r_todo, r_exit>>

\* `await asyncio.sleep(0.25)`, then back to the while condition
AllCommentsSleep ==
    /\ pc = "all_sleep"
    /\ pc' = "all_head"
    /\ UNCHANGED <<crawlVars, confVars, total_replies, rootVars, replyVars, exc>>

\* --------------------------------------------- MixCrawler.get_comment_replies
\* `while len(replies) < max_needed:`
NeededLoop ==
    /\ pc = "needed_head"
    /\ IF Len(replies) < max_replies
       THEN pc' = "needed_call" /\ r_exit' = r_exit
       ELSE pc' = "needed_return" /\ r_exit' = "cap"
    /\ UNCHANGED <<crawlVars, confVars, total_replies, rootVars, replies,
                   reply_ids, r_cursor, r_resp, r_todo, expected_count,
                   max_replies, exc>>

\* an exception raised inside the try block of get_comment_replies (lines
\* 252-273): `except Exception: break`, anything else leaves it and
\* get_all_comments
NeededRaise(kind) ==
    IF ExceptException(kind)
    THEN pc' = "needed_return" /\ r_exit' = "exception" /\ exc' = exc
    ELSE pc' = "raised" /\ r_exit' = r_exit /\ exc' = kind

\* the awaited reply-page call returns: lines 253-260
NeededResponse ==
    /\ pc = "needed_call"
    /\ \E r \in Responses :
        CASE r.kind \in {"raise", "interrupt"} ->
                /\ NeededRaise(r.kind)
                /\ UNCHANGED <<r_resp, r_todo>>
          [] r.kind = "falsy" ->
                /\ pc' = "needed_return"
                /\ r_exit' = "resp_empty"
                /\ UNCHANGED <<r_resp, r_todo, exc>>
          [] r.kind = "page" /\ r.count = 0 ->
                /\ pc' = "needed_return"
                /\ r_exit' = "list_empty"
                /\ UNCHANGED <<r_resp, r_todo, exc>>
          [] OTHER ->
                /\ r_resp' = PageInfo(r)
                /\ r_todo' = r.count - 1
                /\ pc' = "needed_item"
                /\ UNCHANGED <<r_exit, exc>>
    /\ UNCHANGED <<crawlVars, confVars, total_replies, rootVars, replies,
                   reply_ids, r_cursor, expected_count, max_replies>>

\* lines 267-271, after the for loop: the cursor is taken over, only has_more
\* decides
NeededPageEnd ==
    /\ r_todo' = 0
    /\ r_cursor' = r_resp.cursor
    /\ IF ~r_resp.has_more
       THEN pc' = "needed_return" /\ r_exit' = "no_more"
       ELSE pc' = "needed_sleep" /\ r_exit' = r_exit

\* one iteration of `for r in data:` (lines 262-265).  The parent id handed to
\* get_comment_replies is the cid of the root appended last to collected.
NeededItem ==
    /\ pc = "needed_item"
    /\ \E r \in ReplyItems :
       IF ~r.dict
       THEN /\ NeededRaise("raise")
            /\ UNCHANGED <<replies, r_cursor, r_todo>>
       ELSE /\ replies' = Append(replies,
                    FormatCommentRow(r, 2, comments[Len(comments)].comment_id))
            /\ exc' = exc
            /\ IF Len(replies') < max_replies /\ r_todo > 0
               THEN /\ pc' = "needed_item"
                    /\ r_todo' = r_todo - 1
                    /\ UNCHANGED <<r_cursor, r_exit>>
               ELSE NeededPageEnd
    /\ UNCHANGED <<crawlVars, confVars, total_replies, rootVars, reply_ids,
                   r_resp, expected_count, max_replies>>

\* `await asyncio.sleep(0.2)`, then back to the while condition
NeededSleep ==
    /\ pc = "needed_sleep"
    /\ pc' = "needed_head"
    /\ UNCHANGED <<crawlVars, confVars, total_replies, rootVars, replyVars, exc>>

\* get_comment_replies returns, its frame is gone, and get_all_comments extends
\* collected with what it returned, then checks the cap (lines 229-232)
NeededReturn ==
    /\ pc = "needed_return"
    /\ comments' = comments \o replies
    /\ AllCommentsNext(comments')
    /\ replies' = <<>>
    /\ r_cursor' = 0
    /\ r_resp' = NoResp
    /\ r_todo' = 0
    /\ max_replies' = 0
    /\ expected_count' = 0
    /\ r_exit' = "none"
    /\ UNCHANGED <<crawlVars, confVars, total_replies, comment_ids, resp,
                   reply_ids, exc>>

\* get_all_comments called on its own: on a crawler with any cap up to one
\* above MaxCap over the small upstream, or with a cap just above the reply
\* ceiling over the long thread
InitCollect ==
    /\ \/ upstream = SmallUpstream /\ max_comments \in 0..(MaxCap + 1)
       \/ upstream = LongThread /\ max_comments = ReplyLimit + 2
    /\ fetch_replies = TRUE
    /\ total_replies = 0
    /\ crawler = "complete"
    /\ crawl_pc = "none"
    /\ crawl_comments = TRUE
    /\ limit = 0
    /\ NoRange
    /\ NoFiles
    /\ CrawlStart
    /\ pc = "all_head"
    /\ comments = <<>>
    /\ comment_ids = {}
    /\ cursor = 0
    /\ resp = NoResp
    /\ todo = 0
    /\ exit = "none"
    /\ exc = "none"
    /\ NoReplyFrame

NextCollect ==
    \/ AllCommentsLoop
    \/ AllCommentsResponse
    \/ AllCommentsItem
    \/ AllCommentsSleep
    \/ NeededLoop
    \/ NeededResponse
    \/ NeededItem
    \/ NeededSleep
    \/ NeededReturn

SpecCollect == InitCollect /\ [][NextCollect]_vars

\* ----------------------------------------------- MixCrawler.crawl_mix_complete
\* what a probe of verify_cookie can see: an answer that passes its test, one
\* that does not (or an Exception, caught at line 91), or an interruption
Probes == {"pass", "fail", "interrupt"}

\* verify_cookie returned False: crawl_mix_complete prints its advice and
\* returns (lines 101-113)
CookieRejected ==
    /\ crawl_pc' = "finished"
    /\ crawl_exit' = "cookie"

\* verify_cookie, first probe: the hot-search call (lines 51-52, 87-89)
VerifyHotSearch ==
    /\ crawler = "complete"
    /\ crawl_pc = "verify"
    /\ \E probe \in Probes :
        CASE probe = "pass" -> crawl_pc' = "verify_comments" /\ crawl_exit' = crawl_exit
          [] probe = "fail" -> CookieRejected
          [] OTHER -> CrawlInterrupted
    /\ UNCHANGED <<apiVars, crawlConf, walkVars, video_i, statVars>>

\* verify_cookie, second probe: one comment page of a fixed video (lines
\* 58-86); True starts the walk with cursor = 0, total_videos = 0
VerifyComments ==
    /\ crawler = "complete"
    /\ crawl_pc = "verify_comments"
    /\ \E probe \in Probes :
        CASE probe = "pass" -> crawl_pc' = "list_call" /\ crawl_exit' = crawl_exit
          [] probe = "fail" -> CookieRejected
          [] OTHER -> CrawlInterrupted
    /\ UNCHANGED <<apiVars, crawlConf, walkVars, video_i, statVars>>

\* leaving `while True:` of crawl_mix_complete through a break or through
\* `except Exception` (lines 153-155)
MixBreak(why) ==
    /\ crawl_pc' = "finished"
    /\ crawl_exit' = why

\* the awaited listing call of crawl_mix_complete returns: lines 122-134
MixResponse ==
    /\ crawler = "complete"
    /\ crawl_pc = "list_call"
    /\ \E r \in ListResponses(upstream.videos - total_videos) :
        CASE r.kind = "interrupt" ->
                /\ CrawlInterrupted
                /\ UNCHANGED <<v_resp, v_todo>>
          [] r.kind = "raise" ->
                /\ MixBreak("exception")
                /\ UNCHANGED <<v_resp, v_todo>>
          [] r.kind = "falsy" ->
                /\ MixBreak("resp_empty")
                /\ UNCHANGED <<v_resp, v_todo>>
          [] r.kind = "page" /\ r.count = 0 ->
                /\ MixBreak("list_empty")
                /\ UNCHANGED <<v_resp, v_todo>>
          [] OTHER ->
                /\ v_resp' = PageInfo(r)
                /\ v_todo' = r.count
                /\ crawl_pc' = "video"
                /\ crawl_exit' = crawl_exit
    /\ UNCHANGED <<apiVars, crawlConf, videos, v_cursor, video_i, statVars>>

\* no file counts as being there
ExistsNever(video_index, fs) == FALSE

\* `file_path.exists()` (line 172) for the CSV of folder video_index
Exists(video_index, fs) == fs[video_index] # "none"

\* `for video in videos:` takes the next video of the page, then
\* process_single_video up to its first await (lines 137, 165-181): the folder
\* is made and the metadata extracted, both outside any try of
\* process_single_video; an existing file returns at once
MixVideo ==
    /\ crawler = "complete"
    /\ crawl_pc = "video"
    /\ total_videos' = total_videos + 1
    /\ v_todo' = v_todo - 1
    /\ \E video \in VideoItems, env \in {"ok", "mkdir_fails"} :
        CASE env = "mkdir_fails" \/ ~video.dict ->
                /\ MixBreak("video_exception")
                /\ UNCHANGED <<pc, comments, cursor>>
          [] env = "ok" /\ video.dict /\ Exists(total_videos', files) ->
                /\ crawl_pc' = "video_sleep"
                /\ UNCHANGED <<pc, comments, cursor, crawl_exit>>
          [] OTHER ->
                /\ IF crawl_comments /\ video.comment_count > 0
                   THEN /\ crawl_pc' = "collect"
                        /\ pc' = "all_head"
                        /\ comments' = <<>>
                        /\ cursor' = 0
                   ELSE /\ crawl_pc' = "save"
                        /\ UNCHANGED <<pc, comments, cursor>>
                /\ crawl_exit' = crawl_exit
    /\ UNCHANGED <<confVars, total_replies, comment_ids, resp, todo, exit,
                   replyVars, exc, crawlConf, videos, v_cursor, v_resp, video_i,
                   processed_videos, failed_videos, total_comments>>

\* get_all_comments is over (lines 180-191): what it returned is kept; what it
\* let through is caught by `except BaseException` and comments = []
MixCollected ==
    /\ crawler = "complete"
    /\ crawl_pc = "collect"
    /\ pc \in {"returned", "raised"}
    /\ comments' = IF pc = "returned" THEN comments ELSE <<>>
    /\ pc' = "idle"
    /\ cursor' = 0
    /\ resp' = NoResp
    /\ todo' = 0
    /\ exit' = "none"
    /\ exc' = "none"
    /\ replies' = <<>>
    /\ r_cursor' = 0
    /\ r_resp' = NoResp
    /\ r_todo' = 0
    /\ max_replies' = 0
    /\ r_exit' = "none"
    /\ crawl_pc' = "save"
    /\ UNCHANGED <<confVars, total_replies, comment_ids, reply_ids,
                   expected_count, crawlConf, walkVars, video_i, statVars,
                   crawl_exit>>

\* lines 193-200: the rows are merged and save_csv writes them; save_csv
\* catches what its writing raises (lines 358-372)
MixSave ==
    /\ crawler = "complete"
    /\ crawl_pc = "save"
    /\ comments' = <<>>
    /\ crawl_pc' = "video_sleep"
    /\ \E env \in {"ok", "raise"} :
        files' = IF env = "ok"
                 THEN [files EXCEPT ![total_videos] = "new"]
                 ELSE files
    /\ UNCHANGED <<confVars, total_replies, pc, comment_ids, cursor, resp, todo,
                   exit, replyVars, exc, crawler, crawl_comments, limit,
                   rangeVars, tasks, walkVars, video_i, statVars, crawl_exit>>

\* `await asyncio.sleep(self.sleep)` after a video (line 143), then the next
\* video of the page or, the page done, lines 145-150: the cursor is taken
\* over and only has_more decides
MixVideoSleep ==
    /\ crawler = "complete"
    /\ crawl_pc = "video_sleep"
    /\ IF v_todo > 0
       THEN /\ crawl_pc' = "video"
            /\ UNCHANGED <<v_cursor, crawl_exit>>
       ELSE /\ v_cursor' = v_resp.cursor
            /\ IF ~v_resp.has_more
               THEN MixBreak("no_more")
               ELSE crawl_pc' = "page_sleep" /\ crawl_exit' = crawl_exit
    /\ UNCHANGED <<apiVars, crawlConf, videos, v_resp, v_todo, video_i, statVars>>

\* `await asyncio.sleep(self.sleep)` after a page (line 151), then the next
\* listing call
MixPageSleep ==
    /\ crawler = "complete"
    /\ crawl_pc = "page_sleep"
    /\ crawl_pc' = "list_call"
    /\ UNCHANGED <<apiVars, crawlConf, walkVars, video_i, statVars, crawl_exit>>

\* ==================== PlaywrightMixCrawler.get_mix_videos (crawl_mix_playwright.py)
\* `for video in aweme_list:` (lines 196-221): every record is appended, one
\* that cannot be read raises out of the loop
RECURSIVE ExtendVideos(_, _, _)
ExtendVideos(page, i, vs) ==
    IF i > Len(page)
    THEN [videos |-> vs, raised |-> FALSE]
    ELSE IF ~page[i].dict
    THEN [videos |-> vs, raised |-> TRUE]
    ELSE ExtendVideos(page, i + 1, Append(vs, VideoOf(page[i])))

\* the awaited listing call of get_mix_videos returns: lines 183-234
ListResponse ==
    /\ crawler = "playwright"
    /\ crawl_pc = "walk_call"
    /\ \E r \in ListResponses(upstream.videos - Len(videos)) :
        CASE r.kind = "interrupt" ->
                /\ CrawlInterrupted
                /\ UNCHANGED <<videos, v_cursor>>
          [] r.kind = "raise" ->
                /\ MixBreak("exception")
                /\ UNCHANGED <<videos, v_cursor>>
          [] r.kind = "falsy" ->
                /\ MixBreak("resp_empty")
                /\ UNCHANGED <<videos, v_cursor>>
          [] r.kind = "page" /\ r.count = 0 ->
                /\ MixBreak("list_empty")
                /\ UNCHANGED <<videos, v_cursor>>
          [] OTHER ->
                \E page \in VideoPages(r.count) :
                    LET a == ExtendVideos(page, 1, videos)
                    IN  /\ videos' = a.videos
                        /\ IF a.raised
                           THEN MixBreak("exception") /\ v_cursor' = v_cursor
                           ELSE /\ v_cursor' = r.cursor
                                /\ IF ~r.has_more
                                   THEN MixBreak("no_more")
                                   ELSE /\ crawl_pc' = "walk_sleep"
                                        /\ crawl_exit' = crawl_exit
    /\ UNCHANGED <<apiVars, crawlConf, v_resp, v_todo, video_i, statVars>>

\* `await asyncio.sleep(0.5)` (line 230), then the next listing call
ListSleep ==
    /\ crawler = "playwright"
    /\ crawl_pc = "walk_sleep"
    /\ crawl_pc' = "walk_call"
    /\ UNCHANGED <<apiVars, crawlConf, walkVars, video_i, statVars, crawl_exit>>

\* ================================================================ a whole crawl
\* one run of one crawler on a fresh object: crawl_mix of the API crawler,
\* crawl_mix_complete of MixCrawler, or get_mix_videos of the Playwright
\* crawler
InitCrawl ==
    /\ upstream = CrawlUpstream
    /\ max_comments \in 0..MaxCap
    /\ crawler \in {"api", "complete", "playwright"}
    /\ fetch_replies \in (IF crawler = "api" THEN BOOLEAN ELSE {TRUE})
    /\ crawl_comments \in (IF crawler = "playwright" THEN {TRUE} ELSE BOOLEAN)
    /\ limit \in (IF crawler = "api" THEN 0..MaxVideos ELSE {0})
    /\ NoRange
    /\ files \in (IF crawler = "complete"
                  THEN [1..upstream.videos -> {"none", "old"}]
                  ELSE {<<>>})
    /\ crawl_pc = (IF crawler = "complete" THEN "verify" ELSE "walk_call")
    /\ total_replies = 0
    /\ HarvestIdle
    /\ CrawlStart

NextCrawl ==
    \/ RootLoop
    \/ RootResponse
    \/ RootItem
    \/ RootSleep
    \/ ReplyLoop
    \/ ReplyResponse
    \/ ReplyItem
    \/ ReplySleep
    \/ ReplyReturn
    \/ WalkResponse
    \/ WalkSleep
    \/ CrawlListed
    \/ ProcessVideo
    \/ VideoHarvested
    \/ SaveVideo
    \/ VideoSleep
    \/ AllCommentsLoop
    \/ AllCommentsResponse
    \/ AllCommentsItem
    \/ AllCommentsSleep
    \/ NeededLoop
    \/ NeededResponse
    \/ NeededItem
    \/ NeededSleep
    \/ NeededReturn
    \/ VerifyHotSearch
    \/ VerifyComments
    \/ MixResponse
    \/ MixVideo
    \/ MixCollected
    \/ MixSave
    \/ MixVideoSleep
    \/ MixPageSleep
    \/ ListResponse
    \/ ListSleep

SpecCrawl == InitCrawl /\ [][NextCrawl]_vars

\* ================================================= DrissionMixCrawler
\* A raw comment of a captured packet: its cid, the id some records carry in
\* its place, whether reply_id / reply_to_userid mark it as a reply, and
\* whether a field _parse_comment calls a method on is null (text, user).
\* dict = FALSE is a record that is no mapping: the first .get on it raises.
BadPacketItem ==
    [cid |-> NoCid, id |-> NoCid, reply |-> FALSE, broken |-> FALSE,
     dict |-> FALSE]

PacketItems ==
    {[cid |-> c, id |-> NoCid, reply |-> b, broken |-> x, dict |-> TRUE] :
        c \in Cids, b \in BOOLEAN, x \in {upstream.broken}} \cup
    {[cid |-> NoCid, id |-> k, reply |-> FALSE, broken |-> x, dict |-> TRUE] :
        k \in Cids \cup {NoCid}, x \in {upstream.broken}} \cup
    {BadPacketItem}

\* the comments of the packets one reading of the listener hands over.  The
\* slow page hands over nothing, or one comment that is new, and this only in
\* the rounds its period allows.
Batches ==
    IF upstream.thread
    THEN {<<>>} \cup
         (IF (scroll_round + 1) % upstream.every = 0
                /\ Len(comments) < upstream.ids
          THEN {<<[cid |-> Len(comments) + 1, id |-> NoCid, reply |-> FALSE,
                   broken |-> FALSE, dict |-> TRUE]>>}
          ELSE {})
    ELSE UNION {[1..n -> PacketItems] : n \in 0..upstream.page}

\* `comment.get('cid', '') or str(comment.get('id', ''))` (lines 694, 913, 1071)
CommentId(item) == IF item.cid # NoCid THEN item.cid ELSE item.id

\* `cid = comment.get('cid', '')` of the verification pass (line 968)
VerifyId(item) == item.cid

\* `comment_id = comment.get('cid', '')` of get_video_comments_api (line 1183)
ApiId(item) == item.cid

\* _parse_comment (lines 1067-1128): the fields the harvest logic reads.  A
\* null text or user raises inside its try block, and the except branch
\* returns a record with `str(comment.get('cid', ''))` and level 1.
ParsePacketComment(item) ==
    IF item.broken
    THEN [cid |-> item.cid, level |-> 1]
    ELSE [cid |-> CommentId(item), level |-> IF item.reply THEN 2 ELSE 1]

\* `parsed['level'] = 1` of get_video_comments_api (lines 1186-1188)
ApiRecord(item) == [ParsePacketComment(item) EXCEPT !.level = 1]

\* every record is taken as new
UnseenAlways(id, ids) == id # NoCid

\* `comment_id and comment_id not in comment_ids`
Unseen(id, ids) == id # NoCid /\ id \notin ids

\* One reading of the listener inside `try: ... except: pass`: the records
\* are gone through in order, an unseen id is registered and its record
\* appended; a record that is no mapping raises and the rest is skipped.
\* `verifying` selects the id the verification pass looks at.
RECURSIVE TakePacket(_, _, _, _, _, _)
TakePacket(batch, i, cs, ids, verifying, found) ==
    IF i > Len(batch) \/ ~batch[i].dict
    THEN [comments |-> cs, ids |-> ids, found |-> found]
    ELSE LET k == IF verifying THEN VerifyId(batch[i]) ELSE CommentId(batch[i])
         IN  IF Unseen(k, ids)
             THEN TakePacket(batch, i + 1,
                             Append(cs, ParsePacketComment(batch[i])),
                             ids \cup {k}, verifying, TRUE)
             ELSE TakePacket(batch, i + 1, cs, ids, verifying, found)

\* `for comment in comments_data:` of get_video_comments_api (lines 1182-1188);
\* a record that is no mapping raises into `except Exception` (line 1206)
RECURSIVE TakeApiPage(_, _, _, _)
TakeApiPage(batch, i, cs, ids) ==
    IF i > Len(batch)
    THEN [comments |-> cs, ids |-> ids, raised |-> FALSE]
    ELSE IF ~batch[i].dict
    THEN [comments |-> cs, ids |-> ids, raised |-> TRUE]
    ELSE IF Unseen(ApiId(batch[i]), ids)
    THEN TakeApiPage(batch, i + 1, Append(cs, ApiRecord(batch[i])),
                     ids \cup {ApiId(batch[i])})
    ELSE TakeApiPage(batch, i + 1, cs, ids)

\* the two numbers added
MaxScrollRoundsSum(e) == 300 + e \div 3

\* `max_scroll_rounds = max(300, expected_count // 3)` (line 796)
MaxScrollRounds(e) == IF e \div 3 > 300 THEN e \div 3 ELSE 300

\* twice the rounds
MaxNoNewRoundsTwice(e) == IF e > 500 THEN 100 ELSE 60

\* `max_no_new_rounds = 50 if is_large_comment else 30` (lines 795-797)
MaxNoNewRounds(e) == IF e > 500 THEN 50 ELSE 30

\* `coverage >= 100` with coverage = len(comments) / expected_count * 100, and
\* 0 when nothing is expected (line 941)
Coverage100(n, e) == e > 0 /\ n >= e

\* ------------------------------------- DrissionMixCrawler.get_video_comments
\* the locals of the scroll loop and the position in it
Frame(p, rnd, nn, sr, lc) ==
    /\ pc' = p
    /\ scroll_round' = rnd
    /\ no_new_count' = nn
    /\ stall_rounds' = sr
    /\ last_count' = lc

\* the listener is left as the loop had it
NoFinally(running) == running

\* `finally: self.driver.listen.stop()` (lines 1058-1063), on every way out of
\* the try statement
Finally(running) == FALSE

\* the function is left: its locals are gone, and the finally clause has
\* stopped the listener
BrowserLeave(p) ==
    /\ Frame(p, 0, 0, 0, 0)
    /\ packets' = <<>>
    /\ listening' = Finally(listening)

\* a break or a caught Exception ends the loop (lines 1042-1065): `return comments`
ScrollReturn(reason) ==
    /\ BrowserLeave("returned")
    /\ exit' = reason
    /\ exc' = exc

\* an interruption is no Exception: neither except clause (lines 1042, 1054)
\* takes it, the finally clause runs and it leaves get_video_comments
ScrollRaise ==
    /\ BrowserLeave("raised")
    /\ exit' = exit
    /\ exc' = "interrupt"

\* the loop goes on at position p
ScrollOn(p, rnd, nn, sr, lc) ==
    /\ Frame(p, rnd, nn, sr, lc)
    /\ listening' = listening
    /\ exit' = exit
    /\ exc' = exc

\* `if stall_rounds >= 6: break` (lines 1037-1040), the last statement of a round
StallExit(rnd, nn, sr, lc) ==
    IF sr >= StallGiveUp
    THEN ScrollReturn("stall") /\ packets' = <<>>
    ELSE ScrollOn("loop", rnd, nn, sr, lc) /\ packets' = <<>>

\* the rest of a round past the log block (lines 982-1040): the stall count
\* every 10 rounds, then the bottom detection once no_new_count has reached
\* max_no_new_rounds (the page's end marker breaks, else one more reading of
\* the listener is awaited), then the stall exit.  n is len(comments).
RoundTail(rnd, nn, n) ==
    LET sr == IF rnd % 10 = 0
              THEN (IF n = last_count THEN stall_rounds + 1 ELSE 0)
              ELSE stall_rounds
        lc == IF rnd % 10 = 0 THEN n ELSE last_count
    IN  IF nn >= MaxNoNewRounds(expected_count)
        THEN \E marker \in BOOLEAN :
                IF marker
                THEN ScrollReturn("bottom_marker") /\ packets' = <<>>
                ELSE ScrollOn("final", rnd, nn, sr, lc) /\ packets' = <<>>
        ELSE StallExit(rnd, nn, sr, lc)

\* lines 636-656: the listener is restarted, the video page opened, and a
\* captcha seen on it waits for the operator
OpenVideo ==
    /\ crawler = "drission"
    /\ pc = "open"
    /\ \E env \in {"ok", "raise", "interrupt"} \cup
                  (IF stdin_read < upstream.captchas THEN {"captcha"} ELSE {}) :
        CASE env = "raise" -> ScrollReturn("exception")
          [] env = "interrupt" -> ScrollRaise
          [] env = "captcha" ->
                /\ pc' = "open_captcha"
                /\ listening' = TRUE
                /\ UNCHANGED <<scroll_round, no_new_count, stall_rounds,
                               last_count, packets, exit, exc>>
          [] OTHER ->
                /\ pc' = "exists"
                /\ listening' = TRUE
                /\ UNCHANGED <<scroll_round, no_new_count, stall_rounds,
                               last_count, packets, exit, exc>>
    /\ UNCHANGED <<crawlVars, settings, report, api_page, stdin_read, success_videos,
                   total_replies, comments, comment_ids, cursor, resp, todo,
                   replyVars>>

\* what input() can do (line 139): return the operator's line, raise EOFError
\* (an Exception) on a closed stdin, or be interrupted
Inputs == {"line", "eof", "interrupt"}

\* _handle_captcha at the page's opening returns (lines 655-656)
OpenCaptcha ==
    /\ crawler = "drission"
    /\ pc = "open_captcha"
    /\ \E line \in Inputs :
        CASE line = "eof" -> ScrollReturn("exception") /\ stdin_read' = stdin_read
          [] line = "interrupt" -> ScrollRaise /\ stdin_read' = stdin_read
          [] OTHER ->
                /\ pc' = "exists"
                /\ stdin_read' = stdin_read + 1
                /\ UNCHANGED <<scroll_round, no_new_count, stall_rounds,
                               last_count, packets, listening,
                               exit, exc>>
    /\ UNCHANGED <<crawlVars, settings, report, api_page, success_videos,
                   total_replies, comments, comment_ids, cursor, resp, todo,
                   replyVars>>

\* lines 658-799: a page that still reports the video as missing after one
\* refresh returns None; else the packets captured while the page loaded (and
\* after the click or the refresh that follow an empty load) are taken in and
\* the loop's locals are set
LoadVideo ==
    /\ crawler = "drission"
    /\ pc = "exists"
    /\ \E env \in {"ok", "missing", "raise", "interrupt"} :
        CASE env = "raise" -> ScrollReturn("exception") /\ UNCHANGED <<comments, comment_ids>>
          [] env = "interrupt" -> ScrollRaise /\ UNCHANGED <<comments, comment_ids>>
          [] env = "missing" ->
                /\ BrowserLeave("returned_none")
                /\ UNCHANGED <<comments, comment_ids, exit, exc>>
          [] OTHER ->
                \E batch \in Batches :
                    LET t == TakePacket(batch, 1, comments, comment_ids, FALSE, FALSE)
                    IN  /\ comments' = t.comments
                        /\ comment_ids' = t.ids
                        /\ ScrollOn("loop", 0, 0, 0, 0)
                        /\ packets' = <<>>
    /\ UNCHANGED <<crawlVars, settings, report, api_page, stdin_read, success_videos,
                   total_replies, cursor, resp, todo, replyVars>>

\* one round of `while scroll_round < max_scroll_rounds and len(comments) <
\* self.max_comments:` up to the place where it waits or ends (lines 867-1040):
\* the scroll, the packets of the round, no_new_count and the captcha check,
\* the log block with the coverage test, and the rest of the round.  The log
\* block runs when `time_since_log >= 2 or new_since_log >= 20` (line 940):
\* the clock decides, 20 new comments being more than the page delivers.
ScrollRound ==
    /\ crawler = "drission"
    /\ pc = "loop"
    /\ IF ~(scroll_round < MaxScrollRounds(expected_count)
            /\ Len(comments) < max_comments)
       THEN /\ ScrollReturn(IF Len(comments) < max_comments THEN "rounds" ELSE "cap")
            /\ UNCHANGED <<comments, comment_ids>>
       ELSE \E env \in {"ok", "raise", "interrupt"} :
            CASE env = "raise" -> ScrollReturn("exception") /\ UNCHANGED <<comments, comment_ids>>
              [] env = "interrupt" -> ScrollRaise /\ UNCHANGED <<comments, comment_ids>>
              [] OTHER ->
                \E batch \in Batches :
                    LET t == TakePacket(batch, 1, comments, comment_ids, FALSE, FALSE)
                        rnd == scroll_round + 1
                        nn == IF t.found THEN 0 ELSE no_new_count + 1
                        n == Len(t.comments)
                    IN  /\ comments' = t.comments
                        /\ comment_ids' = t.ids
                        /\ \E captcha \in (IF ~t.found /\ nn >= CaptchaCheckAfter
                                                /\ stdin_read < upstream.captchas
                                           THEN BOOLEAN ELSE {FALSE}) :
                            IF captcha
                            THEN /\ ScrollOn("captcha", rnd, nn, stall_rounds,
                                             last_count)
                                 /\ packets' = <<>>
                            ELSE \E log_due \in BOOLEAN :
                                 IF log_due /\ Coverage100(n, expected_count)
                                 THEN /\ ScrollOn("verify", rnd, nn, stall_rounds,
                                                  last_count)
                                      /\ packets' \in Batches
                                 ELSE RoundTail(rnd, nn, n)
    /\ UNCHANGED <<crawlVars, settings, report, api_page, stdin_read, success_videos,
                   total_replies, cursor, resp, todo, replyVars>>

\* _handle_captcha in the loop returns (lines 929-933): `no_new_count = 0`
\* and `continue`
HandleCaptcha ==
    /\ crawler = "drission"
    /\ pc = "captcha"
    /\ \E line \in Inputs :
        CASE line = "eof" -> ScrollReturn("exception") /\ stdin_read' = stdin_read
          [] line = "interrupt" -> ScrollRaise /\ stdin_read' = stdin_read
          [] OTHER ->
                /\ stdin_read' = stdin_read + 1
                /\ ScrollOn("loop", scroll_round, 0, stall_rounds, last_count)
    /\ packets' = <<>>
    /\ UNCHANGED <<crawlVars, settings, report, api_page, success_videos,
                   total_replies, comments, comment_ids, cursor, resp, todo,
                   replyVars>>

\* the verification pass at full coverage (lines 954-980) has read what the
\* listener held: nothing unseen breaks, else the round goes on
VerifyPass ==
    /\ crawler = "drission"
    /\ pc = "verify"
    /\ LET t == TakePacket(packets, 1, comments, comment_ids, TRUE, FALSE)
       IN  /\ comments' = t.comments
           /\ comment_ids' = t.ids
           /\ IF ~t.found
              THEN ScrollReturn("coverage")
              ELSE RoundTail(scroll_round, no_new_count, Len(t.comments))
    /\ UNCHANGED <<crawlVars, settings, report, api_page, stdin_read, success_videos,
                   total_replies, cursor, resp, todo, replyVars>>

\* the last reading of the bottom detection (lines 1008-1035)
BottomCheck ==
    /\ crawler = "drission"
    /\ pc = "final"
    /\ \E batch \in Batches :
        LET t == TakePacket(batch, 1, comments, comment_ids, FALSE, FALSE)
        IN  /\ comments' = t.comments
            /\ comment_ids' = t.ids
            /\ IF ~t.found
               THEN ScrollReturn("bottom") /\ packets' = <<>>
               ELSE StallExit(scroll_round, 0, stall_rounds, last_count)
    /\ UNCHANGED <<crawlVars, settings, report, api_page, stdin_read, success_videos,
                   total_replies, cursor, resp, todo, replyVars>>

\* --------------------------------- DrissionMixCrawler.get_video_comments_api
\* fetch_comments is over (lines 1211-1223): `return comments`
ApiReturn(reason) ==
    /\ pc' = "returned"
    /\ exit' = reason
    /\ exc' = exc
    /\ api_page' = 0
    /\ cursor' = 0

\* lines 1155-1161: the import and the construction of the web crawler; an
\* ImportError or any Exception returns the empty list
ApiEnter ==
    /\ crawler = "drission"
    /\ pc = "api_enter"
    /\ \E env \in {"ok", "raise"} :
        IF env = "raise"
        THEN ApiReturn("exception")
        ELSE /\ pc' = "api_head"
             /\ api_page' = 0
             /\ cursor' = 0
             /\ UNCHANGED <<exit, exc>>
    /\ UNCHANGED <<crawlVars, settings, report, scroll_round, no_new_count, stall_rounds,
                   last_count, packets, stdin_read, listening,
                   success_videos, total_replies, comments, comment_ids, resp,
                   todo, replyVars>>

\* `while page < max_pages and len(comments) < self.max_comments:` and
\* `page += 1`
ApiLoop ==
    /\ crawler = "drission"
    /\ pc = "api_head"
    /\ IF api_page < MaxPages /\ Len(comments) < max_comments
       THEN /\ pc' = "api_call"
            /\ api_page' = api_page + 1
            /\ UNCHANGED <<exit, exc, cursor>>
       ELSE ApiReturn(IF Len(comments) < max_comments THEN "pages" ELSE "cap")
    /\ UNCHANGED <<crawlVars, settings, report, scroll_round, no_new_count, stall_rounds,
                   last_count, packets, stdin_read, listening,
                   success_videos, total_replies, comments, comment_ids, resp,
                   todo, replyVars>>

\* the awaited page call returns (lines 1167-1208).  An interruption is taken
\* by neither except clause and leaves get_video_comments_api.
ApiResponse ==
    /\ crawler = "drission"
    /\ pc = "api_call"
    /\ \E r \in Responses :
        CASE r.kind = "interrupt" ->
                /\ pc' = "raised"
                /\ exc' = "interrupt"
                /\ api_page' = 0
                /\ cursor' = 0
                /\ UNCHANGED <<exit, comments, comment_ids>>
          [] r.kind = "raise" ->
                ApiReturn("exception") /\ UNCHANGED <<comments, comment_ids>>
          [] r.kind = "falsy" ->
                ApiReturn("resp_empty") /\ UNCHANGED <<comments, comment_ids>>
          [] r.kind = "page" /\ r.count = 0 ->
                ApiReturn("list_empty") /\ UNCHANGED <<comments, comment_ids>>
          [] OTHER ->
                \E batch \in [1..r.count -> PacketItems] :
                    LET a == TakeApiPage(batch, 1, comments, comment_ids)
                    IN  /\ comments' = a.comments
                        /\ comment_ids' = a.ids
                        /\ IF a.raised
                           THEN ApiReturn("exception")
                           ELSE IF ~r.has_more \/ r.cursor = cursor
                           THEN ApiReturn("no_more")
                           ELSE /\ pc' = "api_sleep"
                                /\ cursor' = r.cursor
                                /\ UNCHANGED <<exit, exc, api_page>>
    /\ UNCHANGED <<crawlVars, settings, report, scroll_round, no_new_count, stall_rounds,
                   last_count, packets, stdin_read, listening,
                   success_videos, total_replies, resp, todo, replyVars>>

\* `await asyncio.sleep(0.3)`, then back to the while condition
ApiSleep ==
    /\ crawler = "drission"
    /\ pc = "api_sleep"
    /\ pc' = "api_head"
    /\ UNCHANGED <<crawlVars, confVars, total_replies, rootVars, replyVars, exc>>

\* ---------------------------------------- DrissionMixCrawler.process_video
\* the threshold is taken as reached by the count itself
StrategyFromThreshold(total_expected) ==
    IF total_expected >= LargeCommentThreshold THEN "api" ELSE "browser"

\* `if total_expected > LARGE_COMMENT_THRESHOLD:` (lines 1297-1301)
Strategy(total_expected) ==
    IF total_expected > LargeCommentThreshold THEN "api" ELSE "browser"

\* an except clause that logs and counts nothing
DrVideoLogged ==
    /\ failed_videos' = failed_videos
    /\ crawl_pc' = "video_sleep"
    /\ crawl_exit' = "failed"

\* `except Exception` of the video loop of crawl_mix (lines 1501-1503)
DrVideoFailed ==
    /\ failed_videos' = failed_videos + 1
    /\ crawl_pc' = "video_sleep"
    /\ crawl_exit' = "failed"

\* process_video up to its harvest (lines 1249-1301): the browser state is
\* reset, the folder made, and with comments wanted and reported the harvest
\* of the chosen strategy is entered
DrProcessVideo ==
    /\ crawler = "drission"
    /\ crawl_pc = "video"
    /\ listening' = FALSE
    /\ report' = NoReport
    /\ \E env \in {"ok", "raise"} :
        IF env = "raise"
        THEN /\ DrVideoFailed
             /\ UNCHANGED <<pc, comments, comment_ids, expected_count>>
        ELSE LET total_expected == videos[video_i].comment_count
             IN  IF crawl_comments /\ total_expected > 0
                 THEN /\ pc' = (IF Strategy(total_expected) = "api"
                                THEN "api_enter" ELSE "open")
                      /\ comments' = <<>>
                      /\ comment_ids' = {}
                      /\ expected_count' = total_expected
                      /\ crawl_pc' = "harvest"
                      /\ UNCHANGED <<failed_videos, crawl_exit>>
                 ELSE /\ crawl_pc' = "save"
                      /\ UNCHANGED <<pc, comments, comment_ids, expected_count,
                                     failed_videos, crawl_exit>>
    /\ UNCHANGED <<settings, scroll_round, no_new_count, stall_rounds,
                   last_count, packets, stdin_read, api_page,
                   success_videos, total_replies, cursor, resp, todo, exit, exc,
                   replies, reply_ids, r_cursor, r_resp, r_todo, max_replies,
                   r_exit, crawlConf, walkVars, video_i, total_videos,
                   processed_videos, total_comments>>

\* a missing video is saved like any other
AfterHarvestSaves(p) == "save"

\* where process_video goes with what the harvest returned (lines 1304-1327):
\* None makes it return before the CSV is written
AfterHarvest(p) == IF p = "returned_none" THEN "video_sleep" ELSE "save"

\* the harvest is over (lines 1303-1327): None marks a missing video, which is
\* counted as processed and failed and not saved; a list is counted; an
\* interruption leaves process_video and the video loop
DrVideoHarvested ==
    /\ crawler = "drission"
    /\ crawl_pc = "harvest"
    /\ pc \in {"returned", "returned_none", "raised"}
    /\ CASE pc = "returned_none" ->
                /\ processed_videos' = processed_videos + 1
                /\ failed_videos' = failed_videos + 1
                /\ crawl_pc' = AfterHarvest(pc)
                /\ crawl_exit' = "not_exist"
                /\ UNCHANGED <<total_comments, report>>
         [] pc = "returned" ->
                /\ total_comments' = total_comments + Len(comments)
                /\ LET coverage == Coverage(Len(comments),
                                            videos[video_i].comment_count)
                   IN  report' = [coverage |-> coverage,
                                  level |-> DrissionLevel(coverage)]
                /\ crawl_pc' = AfterHarvest(pc)
                /\ UNCHANGED <<processed_videos, failed_videos, crawl_exit>>
         [] OTHER ->
                /\ crawl_pc' = "raised"
                /\ crawl_exit' = "interrupt"
                /\ UNCHANGED <<processed_videos, failed_videos, total_comments,
                               report>>
    /\ HarvestLeave
    /\ UNCHANGED <<settings, browserVars, total_replies, crawlConf, walkVars,
                   video_i, total_videos>>

\* lines 1329-1336: _save_csv, then the video is counted as processed and as
\* a success; an Exception of the writing reaches the video loop
DrSaveVideo ==
    /\ crawler = "drission"
    /\ crawl_pc = "save"
    /\ \E env \in {"ok", "raise"} :
        IF env = "raise"
        THEN /\ DrVideoFailed
             /\ UNCHANGED <<processed_videos, success_videos>>
        ELSE /\ processed_videos' = processed_videos + 1
             /\ success_videos' = success_videos + 1
             /\ crawl_pc' = "video_sleep"
             /\ crawl_exit' = "saved"
             /\ UNCHANGED failed_videos
    /\ UNCHANGED <<settings, report, scroll_round, no_new_count, stall_rounds,
                   last_count, packets, stdin_read, listening,
                   api_page, harvestVars, crawlConf, walkVars, video_i,
                   total_videos, total_comments>>

\* `time.sleep(self.sleep)` at the end of an iteration of `for video in
\* videos:` (lines 1498-1507), then the next video, or the summary once the
\* list is through; an interruption of the sleep leaves crawl_mix
DrVideoSleep ==
    /\ crawler = "drission"
    /\ crawl_pc = "video_sleep"
    /\ \E env \in {"ok", "interrupt"} :
        IF env = "interrupt"
        THEN /\ crawl_pc' = "raised"
             /\ crawl_exit' = "interrupt"
             /\ video_i' = video_i
        ELSE /\ video_i' = video_i + 1
             /\ crawl_pc' = (IF video_i' > Len(videos) THEN "finished" ELSE "video")
             /\ crawl_exit' = (IF video_i' > Len(videos) THEN "done" ELSE "none")
    /\ UNCHANGED <<apiVars, crawlConf, walkVars, statVars>>

\* the comment counts a listed video reports over a page that delivers
\* comments: none, one, and the first count past the large-comment threshold
ExpectedCounts == {0, 1, LargeCommentThreshold + 1}

\* process_video of DrissionMixCrawler on one listed video, with the cap at
\* MaxCap or at its default; the video whose count is the threshold itself
\* has the quiet page
InitVideo ==
    /\ \/ /\ upstream \in {ScrollUpstream, CaptchaUpstream}
          /\ videos \in {<<[aweme_id |-> 1, comment_count |-> n]>> :
                            n \in ExpectedCounts}
          /\ max_comments \in {MaxCap, DefaultMaxComments}
       \/ /\ upstream = QuietUpstream
          /\ videos = <<[aweme_id |-> 1, comment_count |-> LargeCommentThreshold]>>
          /\ max_comments \in {MaxCap, DefaultMaxComments}
       \/ /\ upstream = NullFieldUpstream
          /\ videos = <<[aweme_id |-> 1, comment_count |-> 1]>>
          /\ max_comments = DefaultMaxComments
    /\ fetch_replies = TRUE
    /\ total_replies = 0
    /\ crawler = "drission"
    /\ crawl_comments \in BOOLEAN
    /\ limit = 0
    /\ NoRange
    /\ NoFiles
    /\ crawl_pc = "video"
    /\ v_cursor = 0
    /\ v_resp = NoResp
    /\ v_todo = 0
    /\ video_i = 1
    /\ total_videos = 1
    /\ processed_videos = 0
    /\ failed_videos = 0
    /\ total_comments = 0
    /\ crawl_exit = "none"
    /\ HarvestIdle
    /\ NoBrowser

NextVideo ==
    \/ DrProcessVideo
    \/ OpenVideo
    \/ OpenCaptcha
    \/ LoadVideo
    \/ ScrollRound
    \/ HandleCaptcha
    \/ VerifyPass
    \/ BottomCheck
    \/ ApiEnter
    \/ ApiLoop
    \/ ApiResponse
    \/ ApiSleep
    \/ DrVideoHarvested
    \/ DrSaveVideo
    \/ DrVideoSleep

SpecVideo == InitVideo /\ [][NextVideo]_vars

\* a page that hands over a new comment every 25th round at most, and has
\* enough of them to keep the scroll loop going to its last round
SlowUpstream ==
    [thread |-> TRUE, ids |-> 12, page |-> 1, cursors |-> 1, totals |-> 0,
     videos |-> 1, reply_only |-> {}, captchas |-> 0, broken |-> FALSE,
     every |-> 25]

\* process_video of DrissionMixCrawler on one listed video whose harvest is
\* the scroll loop: the slow page, a page with captchas under a count that
\* makes max_no_new_rounds 50, and pages without captcha under a small and a
\* large count
InitScroll ==
    /\ \/ /\ upstream = SlowUpstream
          /\ videos = <<[aweme_id |-> 1, comment_count |-> 20]>>
       \/ /\ upstream = CaptchaUpstream
          /\ videos = <<[aweme_id |-> 1, comment_count |-> LargeCommentThreshold]>>
       \/ /\ upstream = ScrollUpstream
          /\ videos \in {<<[aweme_id |-> 1, comment_count |-> n]>> :
                            n \in {1, LargeCommentThreshold}}
    /\ max_comments = DefaultMaxComments
    /\ fetch_replies = TRUE
    /\ total_replies = 0
    /\ crawler = "drission"
    /\ crawl_comments = TRUE
    /\ limit = 0
    /\ NoRange
    /\ NoFiles
    /\ crawl_pc = "video"
    /\ v_cursor = 0
    /\ v_resp = NoResp
    /\ v_todo = 0
    /\ video_i = 1
    /\ total_videos = 1
    /\ processed_videos = 0
    /\ failed_videos = 0
    /\ total_comments = 0
    /\ crawl_exit = "none"
    /\ HarvestIdle
    /\ NoBrowser

NextScroll ==
    \/ DrProcessVideo
    \/ OpenVideo
    \/ OpenCaptcha
    \/ LoadVideo
    \/ ScrollRound
    \/ HandleCaptcha
    \/ VerifyPass
    \/ BottomCheck
    \/ DrVideoHarvested
    \/ DrSaveVideo
    \/ DrVideoSleep

SpecScroll == InitScroll /\ [][NextScroll]_vars

\* every call, sleep and pause of the harvest returns at some time
FairSpecScroll == SpecScroll /\ WF_vars(NextScroll)

\* the video loop of crawl_mix over a listed range of up to MaxVideos videos
\* that report no comment or one, on pages that deliver one comment id and
\* show no captcha
LoopUpstream ==
    [thread |-> FALSE, ids |-> 1, page |-> 1, cursors |-> 1, totals |-> 0,
     videos |-> MaxVideos, reply_only |-> {}, captchas |-> 0,
     broken |-> FALSE]

InitLoop ==
    /\ upstream = LoopUpstream
    /\ videos \in UNION {[1..n -> {[aweme_id |-> 1, comment_count |-> c] :
                                        c \in {0, 1}}] : n \in 1..upstream.videos}
    /\ max_comments = DefaultMaxComments
    /\ fetch_replies = TRUE
    /\ total_replies = 0
    /\ crawler = "drission"
    /\ crawl_comments \in BOOLEAN
    /\ limit = 0
    /\ NoRange
    /\ NoFiles
    /\ crawl_pc = "video"
    /\ v_cursor = 0
    /\ v_resp = NoResp
    /\ v_todo = 0
    /\ video_i = 1
    /\ total_videos = Len(videos)
    /\ processed_videos = 0
    /\ failed_videos = 0
    /\ total_comments = 0
    /\ crawl_exit = "none"
    /\ HarvestIdle
    /\ NoBrowser

NextLoop ==
    \/ DrProcessVideo
    \/ OpenVideo
    \/ LoadVideo
    \/ ScrollRound
    \/ VerifyPass
    \/ BottomCheck
    \/ DrVideoHarvested
    \/ DrSaveVideo
    \/ DrVideoSleep

SpecLoop == InitLoop /\ [][NextLoop]_vars

\* ================== DrissionMixCrawler.crawl_mix: the range of videos
Max(a, b) == IF a > b THEN a ELSE b

\* lines 1450-1457: the range a command line gives (start > 0 or end > 0)
CommandRange(from, to, total_count) ==
    LET start_idx == Max(1, Min(IF from > 0 THEN from ELSE 1, total_count))
        end_idx == Max(start_idx,
                       Min(IF to > 0 THEN to ELSE total_count, total_count))
    IN  [start_idx |-> start_idx, end_idx |-> end_idx]

\* what input() gives to a question: an empty line, a number, a line int()
\* rejects, an interruption, or the end of stdin
Answers ==
    {[kind |-> k, n |-> 0] : k \in {"empty", "invalid", "interrupt", "eof"}}
    \cup {[kind |-> "number", n |-> n] : n \in 0..MaxListed + 1}

\* lines 1466-1476: the range asked for at the terminal
AskedRange(first, second, total_count) ==
    LET start_idx == IF first.kind = "number"
                     THEN Max(1, Min(first.n, total_count)) ELSE 1
        end_idx == IF second.kind = "number"
                   THEN Max(start_idx, Min(second.n, total_count))
                   ELSE total_count
    IN  IF first.kind = "invalid" \/ second.kind = "invalid"
        THEN [start_idx |-> 1, end_idx |-> total_count]
        ELSE [start_idx |-> start_idx, end_idx |-> end_idx]

\* the videos of the range are numbered from 1
SliceRenumbered(vs, start_idx, end_idx) ==
    [i \in 1..(end_idx - start_idx + 1) |->
        [vs[start_idx + i - 1] EXCEPT !.index = i]]

\* lines 1488-1492: `videos[start_idx - 1:end_idx]`, each video with the
\* index start_idx + i
Slice(vs, start_idx, end_idx) ==
    [i \in 1..(end_idx - start_idx + 1) |->
        [vs[start_idx + i - 1] EXCEPT !.index = start_idx + i - 1]]

\* lines 1447-1496: the listing is counted and the range chosen, from the
\* command line, or (both arguments 0) the whole listing when headless and
\* from two questions otherwise; an interruption of a question ends
\* crawl_mix, the end of stdin leaves it with an EOFError
DrSelectRange ==
    /\ crawler = "drission"
    /\ crawl_pc = "listed"
    /\ LET total_count == Len(videos)
           Selected(r) ==
                /\ videos' = Slice(videos, r.start_idx, r.end_idx)
                /\ total_original' = total_count
                /\ total_videos' = Len(videos')
                /\ video_i' = 1
                /\ crawl_pc' = "video"
                /\ crawl_exit' = crawl_exit
           Left(how, why) ==
                /\ crawl_pc' = how
                /\ crawl_exit' = why
                /\ UNCHANGED <<videos, total_original, total_videos, video_i>>
       IN  IF start > 0 \/ end > 0
           THEN Selected(CommandRange(start, end, total_count))
           ELSE \E headless \in BOOLEAN :
                IF headless
                THEN Selected([start_idx |-> 1, end_idx |-> total_count])
                ELSE \E first \in Answers :
                     IF first.kind = "interrupt" THEN Left("finished", "interrupt")
                     ELSE IF first.kind = "eof" THEN Left("raised", "eof")
                     ELSE IF first.kind = "invalid"
                     THEN Selected(AskedRange(first, first, total_count))
                     ELSE \E second \in Answers :
                          IF second.kind = "interrupt"
                          THEN Left("finished", "interrupt")
                          ELSE IF second.kind = "eof" THEN Left("raised", "eof")
                          ELSE Selected(AskedRange(first, second, total_count))
    /\ UNCHANGED <<apiVars, crawler, crawl_comments, limit, start, end, tasks,
                   files,
                   v_cursor, v_resp, v_todo, processed_videos, failed_videos,
                   total_comments>>

\* crawl_mix once get_mix_videos has returned a listing of 1..MaxListed
\* videos, each with the index of its position; no comments are crawled
InitRange ==
    /\ upstream = LoopUpstream
    /\ max_comments = DefaultMaxComments
    /\ fetch_replies = TRUE
    /\ total_replies = 0
    /\ crawler = "drission"
    /\ crawl_comments = FALSE
    /\ limit = 0
    /\ start \in 0..MaxListed + 1
    /\ end \in 0..MaxListed + 1
    /\ total_original = 0
    /\ \E n \in 1..MaxListed :
            videos = [i \in 1..n |->
                        [aweme_id |-> i, comment_count |-> 0, index |-> i]]
    /\ crawl_pc = "listed"
    /\ v_cursor = 0
    /\ v_resp = NoResp
    /\ v_todo = 0
    /\ video_i = 0
    /\ total_videos = 0
    /\ processed_videos = 0
    /\ failed_videos = 0
    /\ total_comments = 0
    /\ crawl_exit = "none"
    /\ HarvestIdle
    /\ NoFiles
    /\ NoBrowser

NextRange ==
    \/ DrSelectRange
    \/ DrProcessVideo
    \/ DrSaveVideo
    \/ DrVideoSleep

SpecRange == InitRange /\ [][NextRange]_vars

\* ============ several process_video coroutines of one DouyinAPICrawler
\* Each coroutine is followed by the lengths of its lists.  It is suspended
\* at its feed calls and sleeps only (crawl_mix_api.py lines 168, 212, 230,
\* 263); a step is what it does between two suspensions.  `seen` is what
\* stats held when it was suspended last.
Stats ==
    [total_replies |-> total_replies, total_comments |-> total_comments,
     processed_videos |-> processed_videos, failed_videos |-> failed_videos]

\* the counter is read before the suspension that precedes its update
ReadBeforeSuspension(seen, now) == seen

\* `self.stats[...] += n` reads the counter where it writes it: no await
\* stands between (lines 269, 376, 395, 528)
Read(seen, now) == now

Coroutines == {1, 2}

NewTask ==
    [at |-> "root_call", calls |-> 0, comments |-> 0, replies |-> 0,
     replied |-> 0, seen |-> [total_replies |-> 0, total_comments |-> 0,
                              processed_videos |-> 0, failed_videos |-> 0]]

\* the coroutine t goes on as k and is suspended again (or is over), with
\* the counters as it leaves them
TaskStep(t, k, counters) ==
    /\ total_replies' = counters.total_replies
    /\ total_comments' = counters.total_comments
    /\ processed_videos' = counters.processed_videos
    /\ failed_videos' = counters.failed_videos
    /\ tasks' = [tasks EXCEPT ![t] = [k EXCEPT !.seen = counters]]
    /\ UNCHANGED <<confVars, pc, rootVars, replyVars, exc, crawler,
                   crawl_comments, limit, rangeVars, files, crawl_pc, walkVars,
                   video_i, total_videos, crawl_exit>>

\* fetch_video_comments returned to process_video (lines 371-395):
\* total_comments grows by the length of the list, the files are written and
\* the video is counted as processed; a failure of the writing is counted by
\* the video loop (line 528)
TaskFinish(t, k, counters) ==
    LET counted ==
            [counters EXCEPT !.total_comments =
                Read(tasks[t].seen.total_comments, @) + k.comments]
    IN  \E env \in {"ok", "raise"} :
            IF env = "ok"
            THEN TaskStep(t, [k EXCEPT !.at = "done"],
                          [counted EXCEPT !.processed_videos =
                              Read(tasks[t].seen.processed_videos, @) + 1])
            ELSE TaskStep(t, [k EXCEPT !.at = "failed"],
                          [counted EXCEPT !.failed_videos =
                              Read(tasks[t].seen.failed_videos, @) + 1])

\* the root loop goes on after a record (lines 190-212): into the reply fetch
\* of the next record, to the sleep before the next page, or out of the loop
TaskRootOn(t, k, counters) ==
    \/ /\ k.calls < MaxTaskCalls
       /\ \/ TaskStep(t, [k EXCEPT !.at = "reply_call", !.replies = 0,
                                    !.comments = @ + 1], counters)
          \/ TaskStep(t, [k EXCEPT !.at = "root_sleep"], counters)
    \/ TaskFinish(t, k, counters)

\* a root-page call of coroutine t returns (lines 168-212): the page ends the
\* harvest, or brings one more comment
TaskRootAnswer(t) ==
    /\ tasks[t].at = "root_call"
    /\ LET k == [tasks[t] EXCEPT !.calls = @ + 1]
       IN  \/ TaskFinish(t, k, Stats)
           \/ TaskRootOn(t, [k EXCEPT !.comments = @ + 1], Stats)

\* a reply-page call of coroutine t returns (lines 230-270): one more reply
\* and the sleep before the next page, or the end of fetch_comment_replies,
\* which adds the length of its list to total_replies; the caller appends
\* the replies it has not seen and goes on
TaskReplyAnswer(t) ==
    /\ tasks[t].at = "reply_call"
    /\ LET k == [tasks[t] EXCEPT !.calls = @ + 1]
       IN  \/ /\ k.calls < MaxTaskCalls
              /\ TaskStep(t, [k EXCEPT !.at = "reply_sleep",
                                       !.replies = @ + 1], Stats)
           \/ \E last \in 0..1 :
                LET n == k.replies + last
                    counters ==
                        [Stats EXCEPT !.total_replies =
                            Read(tasks[t].seen.total_replies, @) + n]
                IN  \E merged \in 0..n :
                        TaskRootOn(t, [k EXCEPT !.replies = 0,
                                               !.replied = @ + n,
                                               !.comments = @ + merged],
                                   counters)

\* `await asyncio.sleep(...)` of coroutine t is over (lines 212, 263)
TaskSleep(t) ==
    /\ tasks[t].at \in {"root_sleep", "reply_sleep"}
    /\ TaskStep(t, [tasks[t] EXCEPT !.at = IF @ = "root_sleep"
                                           THEN "root_call" ELSE "reply_call"],
                Stats)

\* the coroutines of one crawler, each at its first root-page call
InitTasks ==
    /\ upstream = SmallUpstream
    /\ max_comments = DefaultMaxComments
    /\ fetch_replies = TRUE
    /\ total_replies = 0
    /\ crawler = "api"
    /\ crawl_pc = "none"
    /\ crawl_comments = TRUE
    /\ limit = 0
    /\ NoRange
    /\ NoFiles
    /\ scroll_round = 0
    /\ no_new_count = 0
    /\ stall_rounds = 0
    /\ last_count = 0
    /\ packets = <<>>
    /\ stdin_read = 0
    /\ listening = FALSE
    /\ api_page = 0
    /\ success_videos = 0
    /\ report = NoReport
    /\ tasks = [t \in Coroutines |-> NewTask]
    /\ videos = <<>>
    /\ v_cursor = 0
    /\ v_resp = NoResp
    /\ v_todo = 0
    /\ video_i = 0
    /\ total_videos = 0
    /\ processed_videos = 0
    /\ failed_videos = 0
    /\ total_comments = 0
    /\ crawl_exit = "none"
    /\ HarvestIdle

NextTasks ==
    \/ \E t \in Coroutines : TaskRootAnswer(t)
    \/ \E t \in Coroutines : TaskReplyAnswer(t)
    \/ \E t \in Coroutines : TaskSleep(t)

SpecTasks == InitTasks /\ [][NextTasks]_vars

\* ================================= process_video once the harvest is over
\* PlaywrightMixCrawler.process_video, lines 1033-1055: get_video_comments
\* returned and the coverage line is printed; or the try block raised, and an
\* Exception is printed and leaves comments empty, while a cancellation or an
\* interruption goes on to the caller
PwVideoHarvested ==
    /\ crawler = "playwright"
    /\ crawl_pc = "harvest"
    /\ pc \in {"returned", "raised"}
    /\ CASE pc = "returned" ->
                /\ LET coverage == Coverage(Len(comments),
                                            videos[video_i].comment_count)
                   IN  report' = [coverage |-> coverage,
                                  level |-> PlaywrightLine(coverage)]
                /\ crawl_pc' = "save"
                /\ UNCHANGED <<comments, comment_ids, crawl_exit>>
         [] pc = "raised" /\ exc = "raise" ->
                /\ crawl_pc' = "save"
                /\ comments' = <<>>
                /\ comment_ids' = {}
                /\ UNCHANGED <<report, crawl_exit>>
         [] OTHER ->
                /\ crawl_pc' = "raised"
                /\ crawl_exit' = exc
                /\ comments' = <<>>
                /\ comment_ids' = {}
                /\ report' = report
    /\ pc' = "idle"
    /\ exit' = "none"
    /\ exc' = "none"
    /\ UNCHANGED <<settings, browserVars, total_replies, cursor, resp, todo,
                   replyVars, crawlConf, walkVars, video_i, statVars>>

\* lines 1057-1083: _save_csv (it is not guarded), then the summary of the
\* video with the coverage computed again from what is saved
PwSaveVideo ==
    /\ crawler = "playwright"
    /\ crawl_pc = "save"
    /\ \E env \in {"ok", "raise"} :
        IF env = "raise"
        THEN /\ crawl_pc' = "raised"
             /\ crawl_exit' = "raise"
             /\ report' = report
        ELSE /\ crawl_pc' = "video_done"
             /\ crawl_exit' = "saved"
             /\ report' = [report EXCEPT !.coverage =
                                Coverage(Len(comments),
                                         videos[video_i].comment_count)]
    /\ comments' = <<>>
    /\ comment_ids' = {}
    /\ UNCHANGED <<settings, browserVars, total_replies, pc, cursor, resp,
                   todo, exit, exc, replyVars, crawlConf, walkVars, video_i,
                   statVars>>

\* what a harvest has returned: n records
Harvested(n) ==
    [i \in 1..n |-> IF crawler = "drission"
                    THEN [cid |-> i, level |-> 1]
                    ELSE [comment_id |-> i, level |-> 1]]

\* process_video of each crawler on one video, taken where the coverage is
\* decided: the harvest of a video that reports e comments has returned n
\* records or has raised, or no harvest is made (nothing is reported, or
\* comments are not wanted)
InitReport ==
    /\ upstream = SmallUpstream
    /\ max_comments = DefaultMaxComments
    /\ fetch_replies = TRUE
    /\ total_replies = 0
    /\ crawler \in {"api", "playwright", "drission"}
    /\ limit = 0
    /\ NoRange
    /\ NoFiles
    /\ v_cursor = 0
    /\ v_resp = NoResp
    /\ v_todo = 0
    /\ video_i = 1
    /\ total_videos = 1
    /\ processed_videos = 0
    /\ failed_videos = 0
    /\ total_comments = 0
    /\ crawl_exit = "none"
    /\ NoBrowser
    /\ cursor = 0
    /\ resp = NoResp
    /\ todo = 0
    /\ exit = "none"
    /\ NoReplyFrame
    /\ \E e \in 0..MaxExpected, n \in 0..MaxActual :
        /\ videos = <<[aweme_id |-> 1, comment_count |-> e]>>
        /\ \/ /\ e > 0
              /\ crawl_comments = TRUE
              /\ crawl_pc = "harvest"
              /\ pc = "returned"
              /\ exc = "none"
              /\ comments = Harvested(n)
              /\ comment_ids = 1..n
           \/ /\ e > 0 /\ n = 0
              /\ crawl_comments = TRUE
              /\ crawl_pc = "harvest"
              /\ pc = "raised"
              /\ exc \in (IF crawler = "playwright"
                           THEN {"raise", "interrupt"} ELSE {"interrupt"})
              /\ comments = <<>>
              /\ comment_ids = {}
           \/ /\ n = 0
              /\ crawl_comments \in BOOLEAN
              /\ e = 0 \/ ~crawl_comments
              /\ crawl_pc = (IF crawler = "playwright" THEN "save" ELSE "video")
              /\ pc = "idle"
              /\ exc = "none"
              /\ comments = <<>>
              /\ comment_ids = {}

NextReport ==
    \/ ProcessVideo
    \/ VideoHarvested
    \/ SaveVideo
    \/ VideoSleep
    \/ DrProcessVideo
    \/ DrVideoHarvested
    \/ DrSaveVideo
    \/ DrVideoSleep
    \/ PwVideoHarvested
    \/ PwSaveVideo

SpecReport == InitReport /\ [][NextReport]_vars

\* ------------------------------------------------------------ properties
IsPrefix(a, b) == Len(a) <= Len(b) /\ SubSeq(b, 1, Len(a)) = a

Level(cs, l) == {i \in 1..Len(cs) : cs[i].level = l}

\* statuses of pc at which fetch_video_comments is over
Returned == pc = "returned"
Over == pc \in {"returned", "raised"}

\* C1: the list fetch_video_comments builds and returns never holds two records
\* with the same comment_id, whatever pages the feed serves.
C1_NoDuplicateIds ==
    /\ \A i, j \in 1..Len(comments) :
            comments[i].comment_id = comments[j].comment_id => i = j
    /\ comment_ids = {comments[i].comment_id : i \in 1..Len(comments)}

\* C1 witness: a harvest returned at least two records although a reply page
\* served an id that was registered already (a reply was fetched, counted, and
\* dropped by the merge).
C1_Witness ==
    /\ Returned
    /\ ~upstream.thread
    /\ Len(comments) >= 2
    /\ total_replies > Cardinality(Level(comments, 2))

\* C2 (as claimed): with reply fetching enabled the returned list has at most
\* max_comments records.
C2_CapRespected ==
    (Returned /\ fetch_replies) => Len(comments) <= max_comments

\* C3: the step that attaches the replies fetched for a root comment adds at
\* most min(reply_comment_total of that root, 100) records.
C3_ReplyCeiling ==
    [][pc = "reply_return" =>
          /\ Len(comments') - Len(comments) <= Min(expected_count, ReplyLimit)
          /\ Len(replies) <= Min(expected_count, ReplyLimit)]_vars

\* C3 witness: a root reporting more than 100 replies, the feed ready to serve
\* more (has_more true, page not exhausted), and exactly 100 fetched.
C3_Witness ==
    /\ pc = "reply_return"
    /\ expected_count > ReplyLimit
    /\ Len(replies) = ReplyLimit
    /\ r_resp.has_more

\* C4: while a page that came with has_more true and the cursor that was
\* requested is walked, no step leads to another request on that cursor chain:
\* the root loop goes on with the page, returns or raises; the reply loop goes
\* on with its page or returns to the root loop.
C4_SameCursorStops ==
    [][/\ (pc \in {"root_item", "reply_return"} /\ resp.has_more
                /\ resp.cursor = cursor)
            => pc' \in {"root_item", "reply_head", "returned", "raised"}
       /\ (pc = "reply_item" /\ r_resp.has_more /\ r_resp.cursor = r_cursor)
            => pc' \in {"reply_item", "reply_return", "raised"}]_vars

\* C4 witness: the root loop was left because the cursor came back unchanged.
C4_Witness == Returned /\ exit = "same_cursor" /\ Len(comments) >= 1

\* C5 (as claimed): every call of fetch_video_comments comes to an end.
C5_Terminates == <>Over

\* C6 (as claimed): in crawl_mix_complete, while the videos of a listing page
\* that came with has_more true and the cursor that was requested are
\* processed, no step leads to another listing request; in get_mix_videos, the
\* walk goes on to another request only with a cursor other than the one it
\* had requested.
C6_WalkStopsOnSameCursor ==
    [][/\ (/\ crawler = "complete"
            /\ crawl_pc \in {"video", "collect", "save", "video_sleep"}
            /\ v_resp.has_more
            /\ v_resp.cursor = v_cursor)
            => crawl_pc' \notin {"page_sleep", "list_call"}
       /\ (crawler = "playwright" /\ crawl_pc = "walk_call"
                /\ crawl_pc' = "walk_sleep")
            => v_cursor' # v_cursor]_vars

\* C7: in crawl_mix, a step that counts a failed video adds exactly 1 to
\* failed_videos, leaves processed_videos and the list alone and moves the
\* loop to the next video; a step that counts a processed video does not count
\* it failed; every video the loop has passed is counted once, and a crawl
\* that no interruption ended has counted every video of the list.
C7_FailedVideoIsCounted ==
    [][crawler = "api" =>
        /\ failed_videos' # failed_videos =>
                /\ failed_videos' = failed_videos + 1
                /\ processed_videos' = processed_videos
                /\ videos' = videos
                /\ video_i' = video_i + 1
                /\ crawl_pc' = "video"
        /\ processed_videos' # processed_videos =>
                /\ processed_videos' = processed_videos + 1
                /\ failed_videos' = failed_videos
        /\ crawl_pc' \in {"video", "harvest", "save"} =>
                processed_videos' + failed_videos' = video_i' - 1
        /\ crawl_pc' = "video_sleep" =>
                processed_videos' + failed_videos' = video_i'
        /\ (crawl_pc' = "finished" /\ crawl_exit' \notin {"interrupt", "no_videos"})
                => processed_videos' + failed_videos' = Len(videos')]_vars

\* C7 witness: the first video of the list failed and the second one has just
\* been processed.
C7_Witness ==
    /\ crawler = "api"
    /\ crawl_pc = "video_sleep"
    /\ video_i = 2
    /\ failed_videos = 1
    /\ processed_videos = 1

\* C8 (as claimed): in crawl_mix_complete, no step taken while a video is
\* processed (folder and metadata, comment harvest, saving) ends the run.
C8_VideoFailureContinues ==
    [][(crawler = "complete" /\ crawl_pc \in {"video", "collect", "save"})
            => crawl_pc' # "finished"]_vars

\* C9: no Exception leaves fetch_video_comments, and no step removes or
\* reorders a record of comments: what is returned after a failure holds, in
\* order, every record appended before it.
C9_FailureKeepsRecords ==
    [][/\ exc' # "raise"
       /\ IsPrefix(comments, comments')
       /\ (pc \in {"root_call", "root_item"} /\ exit' = "exception")
            => (pc' = "returned" /\ comments' = comments)]_vars

\* C9 witness: a harvest that had registered records returned them after a
\* feed call raised or a page was malformed.
C9_Witness == Returned /\ exit = "exception" /\ Len(comments) >= 1

\* C10 (as claimed): under the cap, a call that raised or came back empty does
\* not end the harvest.
C10_FailureNotTerminal ==
    ~(/\ Returned
      /\ exit \in {"exception", "resp_empty", "list_empty"}
      /\ Len(comments) < max_comments)

\* C11 (as claimed): when get_all_comments was left by an interruption, what
\* process_single_video goes on to write is what had been collected.
C11_InterruptKeepsComments ==
    [][(crawler = "complete" /\ crawl_pc = "collect" /\ pc = "raised")
            => (crawl_pc' = "save" /\ comments' = comments)]_vars

\* positions of fetch_comment_replies between its entry and its return
InReplyFetch == pc \in {"reply_head", "reply_call", "reply_item", "reply_sleep"}

\* C12: fetch_video_comments harvests depth-first.  The step that enters a
\* reply fetch has just appended its root, a level-1 record, as the last one;
\* nothing is appended while the reply fetch runs; the step that merges its
\* result appends level-2 records only, right behind that root; any other
\* step appends at most one record, of level 1.  So every level-2 record
\* lies between its root and the next level-1 record.
C12_DepthFirst ==
    [][/\ IsPrefix(comments, comments')
       /\ (pc = "root_item" /\ pc' = "reply_head") =>
            /\ Len(comments') = Len(comments) + 1
            /\ comments'[Len(comments')].level = 1
       /\ InReplyFetch => comments' = comments
       /\ pc = "reply_return" =>
            /\ comments # <<>>
            /\ comments[Len(comments)].level = 1
            /\ \A i \in (Len(comments) + 1)..Len(comments') :
                    comments'[i].level = 2
       /\ pc \notin {"reply_return", "idle"} =>
            /\ Len(comments') <= Len(comments) + 1
            /\ \A i \in (Len(comments) + 1)..Len(comments') :
                    comments'[i].level = 1]_vars

\* C12 witness: a returned list with a root, its reply and the next root.
C12_Witness ==
    /\ Returned
    /\ Len(comments) >= 3
    /\ comments[1].level = 1
    /\ comments[2].level = 2
    /\ comments[3].level = 1

\* C13: in the list get_all_comments returns (and in collected at every moment
\* before), every level-2 row's parent id is the comment id of a level-1 row
\* that stands earlier in the list.
C13_ParentIsEarlierRoot ==
    \A i \in 1..Len(comments) :
        comments[i].level = 2 =>
            \E j \in 1..(i - 1) :
                /\ comments[j].level = 1
                /\ comments[j].comment_id = comments[i].parent_id

\* C13 witness: a returned list of two roots with different ids and a reply
\* whose parent is the second of them.
C13_Witness ==
    /\ crawler = "complete" /\ Returned /\ Len(comments) = 3
    /\ comments[1].level = 1 /\ comments[2].level = 1 /\ comments[3].level = 2
    /\ comments[1].comment_id # comments[2].comment_id
    /\ comments[2].comment_id # NoCid
    /\ comments[3].parent_id = comments[2].comment_id

\* C14: for every cap, get_all_comments never holds more than max_comments
\* rows, the replies its running reply fetch has gathered included; so the list
\* it returns has at most max_comments rows.
C14_CapHolds ==
    /\ Len(comments) + Len(replies) <= max_comments
    /\ Returned => Len(comments) <= max_comments

\* C14 witness: a returned list that a root and two replies fill up to the cap.
C14_Witness ==
    /\ crawler = "complete" /\ Returned
    /\ max_comments = 3 /\ Len(comments) = max_comments
    /\ comments[1].level = 1 /\ comments[2].level = 2 /\ comments[3].level = 2

\* C15 (as claimed): when get_comment_replies returns, the rows get_all_comments
\* attaches to the root are at most min(reply_comment_total, 100).
C15_ReplyFetchBounded ==
    [][(crawler = "complete" /\ pc = "needed_return")
            => Len(comments') - Len(comments) <= Min(expected_count, ReplyLimit)]_vars

\* C16 (as claimed): no two rows of the returned list carry the same comment
\* id (rows without an id left aside).
C16_NoDuplicateRows ==
    (crawler = "complete" /\ Returned) =>
        \A i, j \in 1..Len(comments) :
            (i # j /\ comments[i].comment_id # NoCid)
                => comments[i].comment_id # comments[j].comment_id

C18_FallbackToOther ==
    [][(/\ crawler = "drission" /\ crawl_pc = "harvest" /\ pc = "returned"
        /\ comments = <<>> /\ expected_count > 0)
            => /\ crawl_pc' = "harvest"
               /\ pc' = (IF Strategy(expected_count) = "api" THEN "open"
                                                              ELSE "api_enter")]_vars

\* C19 (as claimed): the loop is left on the ground of full coverage only by
\* the verification pass, and only when no comment it read carries an id that
\* is not registered; an unregistered id it read is registered and the loop
\* is not left on that ground.
C19_VerifiedStop ==
    [][crawler = "drission" =>
        /\ (pc' = "returned" /\ exit' = "coverage") => pc = "verify"
        /\ pc = "verify" =>
            LET unseen == {i \in 1..Len(packets) :
                            /\ packets[i].dict
                            /\ Unseen(CommentId(packets[i]), comment_ids)}
            IN  /\ (pc' = "returned" /\ exit' = "coverage") => unseen = {}
                /\ unseen # {} =>
                    /\ \A i \in unseen : CommentId(packets[i]) \in comment_ids'
                    /\ ~(pc' = "returned" /\ exit' = "coverage")]_vars

\* C20: a captcha pause of the scroll loop ends only by input(): the step that
\* resumes the loop has read a line of the operator; the pause leaves comments
\* and comment_ids as they were; and no step, before or after a pause, appends
\* a record whose id was registered already.
C20_CaptchaPause ==
    [][crawler = "drission" =>
        /\ pc = "captcha" =>
            /\ comments' = comments
            /\ comment_ids' = comment_ids
            /\ pc' \in {"loop", "returned", "raised"}
            /\ pc' = "loop" => stdin_read' = stdin_read + 1
        /\ \A i \in (Len(comments) + 1)..Len(comments') :
                comments'[i].cid \notin comment_ids]_vars

\* C20 witness: the loop runs again after a pause, with a comment registered
\* more than twenty rounds ago and no_new_count reset since.
C20_Witness ==
    /\ crawler = "drission" /\ pc = "loop"
    /\ stdin_read >= 1
    /\ comments # <<>>
    /\ stall_rounds >= 2
    /\ no_new_count < CaptchaCheckAfter

\* C21: get_video_comments returns None only from the check that the video
\* exists, with nothing collected; process_video then leaves without writing
\* the CSV, having added 1 to processed_videos and 1 to failed_videos and
\* nothing to success_videos; and the video loop goes on to the next video
\* (or to its end when this was the last one).
C21_NotFoundIsSkipped ==
    [][crawler = "drission" =>
        /\ pc' = "returned_none" =>
            /\ pc \in {"exists", "returned_none"}
            /\ comments' = <<>>
        /\ (crawl_pc = "harvest" /\ pc = "returned_none") =>
            /\ processed_videos' = processed_videos + 1
            /\ failed_videos' = failed_videos + 1
            /\ success_videos' = success_videos
            /\ total_comments' = total_comments
            /\ crawl_pc' = "video_sleep"
            /\ crawl_exit' = "not_exist"
        /\ (crawl_pc = "video_sleep" /\ crawl_exit = "not_exist"
                /\ crawl_pc' # "raised") =>
            /\ video_i' = video_i + 1
            /\ crawl_pc' = (IF video_i < Len(videos) THEN "video" ELSE "finished")]_vars

\* C21 witness: the second video is being harvested after the first was found
\* missing.
C21_Witness ==
    /\ crawler = "drission" /\ crawl_pc = "harvest" /\ video_i = 2
    /\ processed_videos = 1 /\ failed_videos = 1 /\ success_videos = 0

\* positions inside get_video_comments, its returns included
InBrowserHarvest ==
    /\ crawler = "drission"
    /\ expected_count <= LargeCommentThreshold
    /\ pc \in {"open", "open_captcha", "exists", "loop", "captcha", "verify",
               "final", "returned", "returned_none", "raised"}

\* C22 (as claimed): throughout get_video_comments comments holds as many
\* records as comment_ids holds ids, and no two records carry the same cid.
C22_OneRecordPerId ==
    InBrowserHarvest =>
        /\ Len(comments) = Cardinality(comment_ids)
        /\ \A i, j \in 1..Len(comments) :
                i # j => comments[i].cid # comments[j].cid

\* C23 (as claimed): between two consecutive feed calls of one
\* fetch_video_comments call a pacing delay is applied.  A feed call is
\* issued from the head of the root loop or of the reply loop; after the
\* first call, a head is entered only from the sleep that precedes it.
C23_PacedCalls ==
    [][(pc' \in {"root_head", "reply_head"} /\ pc' # pc) =>
            pc \in {"root_sleep", "reply_sleep"}]_vars

\* the ids of a sequence of parsed records, and the members of a sequence
IdsOf(cs) == [i \in 1..Len(cs) |-> cs[i].comment_id]
Members(s) == {s[i] : i \in 1..Len(s)}

\* the chain of root pages a replayed feed serves from cursor 0
Chain ==
    LET first == upstream.root[0]
    IN  IF first.kind = "page" /\ first.has_more /\ first.cursor # 0
        THEN <<first, upstream.root[first.cursor]>>
        ELSE <<first>>

\* the cids of the records of a sequence of pages, in the order served
RECURSIVE Served(_, _)
Served(pages, i) ==
    IF i > Len(pages)
    THEN <<>>
    ELSE [k \in 1..Len(pages[i].items) |-> pages[i].items[k].cid]
            \o Served(pages, i + 1)

\* the ids of s, each at the place of its first occurrence
RECURSIVE FirstDeliveries(_, _, _)
FirstDeliveries(s, i, acc) ==
    IF i > Len(s)
    THEN acc
    ELSE IF s[i] = NoCid \/ s[i] \in Members(acc)
    THEN FirstDeliveries(s, i + 1, acc)
    ELSE FirstDeliveries(s, i + 1, Append(acc, s[i]))

\* a finite chain of non-empty root pages of well-formed records, with
\* distinct cursors other than 0, ended by a page without has_more; replies
\* disabled; fewer distinct ids than the cap
FiniteChain ==
    /\ Scripted
    /\ ~fetch_replies
    /\ \A i \in 1..Len(Chain) :
            /\ Chain[i].kind = "page"
            /\ Chain[i].count > 0
            /\ \A k \in 1..Chain[i].count : Chain[i].items[k].dict
    /\ ~Chain[Len(Chain)].has_more
    /\ Len(FirstDeliveries(Served(Chain, 1), 1, <<>>)) < max_comments

\* C24: over a finite chain of non-empty root pages with distinct cursors,
\* with replies disabled and fewer distinct ids than the cap,
\* fetch_video_comments returns, and returns exactly the distinct ids served,
\* each once, in the order of their first delivery.
C24_ChainHarvested ==
    FiniteChain =>
        /\ pc # "raised"
        /\ pc = "returned" =>
            /\ exit = "no_more"
            /\ IdsOf(comments) = FirstDeliveries(Served(Chain, 1), 1, <<>>)
            /\ \A i \in 1..Len(comments) : comments[i].level = 1

\* pages [1, 2] then [3] were harvested as 1, 2, 3
C24_Witness ==
    /\ FiniteChain
    /\ pc = "returned"
    /\ Len(Chain) = 2
    /\ Served(Chain, 1) = <<1, 2, 3>>
    /\ IdsOf(comments) = <<1, 2, 3>>

\* the record the for loop of a replayed harvest is about to read
RootRecord == CHOOSE item \in RootItems : TRUE
ReplyRecord == CHOOSE item \in ReplyItems : TRUE

\* C25: a record with an empty or missing cid is skipped by
\* fetch_video_comments and by fetch_comment_replies: nothing is appended or
\* registered, nothing is raised, the loop moves to the next record of the
\* page, and after the last record the has_more / cursor check decides about
\* the next page as after any other page.
C25_NoIdIsSkipped ==
    [][Scripted =>
        /\ (pc = "root_item" /\ RootRecord.dict /\ RootRecord.cid = NoCid) =>
            /\ comments' = comments /\ comment_ids' = comment_ids
            /\ exc' = exc /\ pc' # "raised" /\ exit' # "exception"
            /\ todo > 0 => pc' = "root_item" /\ todo' = todo - 1
            /\ todo = 0 =>
                IF resp.has_more /\ resp.cursor # cursor
                THEN pc' = "root_sleep" /\ cursor' = resp.cursor
                ELSE pc' = "returned"
        /\ (pc = "reply_item" /\ ReplyRecord.dict /\ ReplyRecord.cid = NoCid) =>
            /\ replies' = replies /\ reply_ids' = reply_ids
            /\ exc' = exc /\ pc' # "raised" /\ r_exit' # "exception"
            /\ r_todo > 0 => pc' = "reply_item" /\ r_todo' = r_todo - 1
            /\ r_todo = 0 =>
                IF r_resp.has_more /\ r_resp.cursor # r_cursor
                THEN pc' = "reply_sleep" /\ r_cursor' = r_resp.cursor
                ELSE pc' = "reply_return"]_vars

\* a page of a record without cid followed by comment 1 was harvested as 1,
\* and the page after it was asked for
C25_Witness ==
    /\ Scripted
    /\ ~fetch_replies
    /\ upstream.root[0].kind = "page"
    /\ upstream.root[0].count = 2
    /\ upstream.root[0].items[1] = ScriptItem(NoCid, 0)
    /\ upstream.root[0].items[2] = ScriptItem(1, 0)
    /\ cursor = 1
    /\ pc = "root_call"
    /\ IdsOf(comments) = <<1>>

\* What a replayed feed determines, computed from the feed, the cap and the
\* reply switch alone.  The replies of one comment: the records of a reply
\* page from its i-th on, then the pages that follow.
RECURSIVE ReplayReplyPage(_, _, _, _)
ReplayReplyPage(items, i, rs, ceiling) ==
    IF i > Len(items)
    THEN [ids |-> rs, raised |-> FALSE]
    ELSE IF ~items[i].dict
    THEN [ids |-> rs, raised |-> TRUE]
    ELSE IF items[i].cid = NoCid \/ items[i].cid \in Members(rs)
    THEN ReplayReplyPage(items, i + 1, rs, ceiling)
    ELSE IF Len(rs) + 1 >= ceiling
    THEN [ids |-> Append(rs, items[i].cid), raised |-> FALSE]
    ELSE ReplayReplyPage(items, i + 1, Append(rs, items[i].cid), ceiling)

RECURSIVE ReplayReplies(_, _, _)
ReplayReplies(at, rs, ceiling) ==
    LET served == upstream.reply[at]
        page == ReplayReplyPage(served.items, 1, rs, ceiling)
    IN  IF Len(rs) >= ceiling \/ served.kind # "page" \/ served.count = 0
        THEN rs
        ELSE IF page.raised \/ ~served.has_more \/ served.cursor = at
        THEN page.ids
        ELSE ReplayReplies(served.cursor, page.ids, ceiling)

\* the root comments of a page from its i-th record on, each followed by the
\* replies not delivered before
RECURSIVE ReplayRootPage(_, _, _)
ReplayRootPage(items, i, cs) ==
    IF i > Len(items)
    THEN [ids |-> cs, raised |-> FALSE]
    ELSE IF ~items[i].dict
    THEN [ids |-> cs, raised |-> TRUE]
    ELSE IF items[i].cid = NoCid \/ items[i].cid \in Members(cs)
    THEN ReplayRootPage(items, i + 1, cs)
    ELSE LET with_root == Append(cs, items[i].cid)
             total == items[i].reply_comment_total
             with_replies ==
                IF fetch_replies /\ total > 0
                THEN FirstDeliveries(
                        with_root \o ReplayReplies(0, <<>>, Min(total, ReplyLimit)),
                        1, <<>>)
                ELSE with_root
         IN  IF Len(with_replies) >= max_comments
             THEN [ids |-> with_replies, raised |-> FALSE]
             ELSE ReplayRootPage(items, i + 1, with_replies)

RECURSIVE Replay(_, _)
Replay(at, cs) ==
    LET served == upstream.root[at]
        page == ReplayRootPage(served.items, 1, cs)
    IN  IF Len(cs) >= max_comments \/ served.kind # "page" \/ served.count = 0
        THEN cs
        ELSE IF page.raised \/ ~served.has_more \/ served.cursor = at
        THEN page.ids
        ELSE Replay(served.cursor, page.ids)

\* C26: two calls of fetch_video_comments that are served the same responses,
\* with the same max_comments and fetch_replies, return the same ids in the
\* same order: what a call returns is the value of one function of the
\* replayed feed, the cap and the reply switch.
C26_ReplayIsAFunction ==
    (Scripted /\ pc = "returned") => IdsOf(comments) = Replay(0, <<>>)

\* a replay that returned a root, its reply and a second root
C26_Witness ==
    /\ Scripted
    /\ fetch_replies
    /\ pc = "returned"
    /\ IdsOf(comments) = <<1, 3, 2>>
    /\ comments[2].level = 2

\* the harvest of the video has returned and process_video is about to
\* print its coverage line
CoverageDue == crawl_pc = "harvest" /\ pc = "returned"

\* actual_count / expected_count >= num / 10, in whole numbers
RatioAtLeast(num) ==
    10 * Len(comments) >= num * videos[video_i].comment_count

\* C27: the coverage line of PlaywrightMixCrawler.process_video and of
\* DrissionMixCrawler.process_video is the success line exactly when
\* actual_count / expected_count >= 0.8; PlaywrightMixCrawler prints the
\* partial line exactly when 0.5 <= ratio < 0.8 and the poor line exactly
\* when ratio < 0.5; DrissionMixCrawler has the warning level below 0.8.
C27_LevelByRatio ==
    [][(CoverageDue /\ crawler \in {"playwright", "drission"}) =>
        /\ report'.level = "success" <=> RatioAtLeast(8)
        /\ crawler = "playwright" =>
            /\ report'.level = "partial" <=> (RatioAtLeast(5) /\ ~RatioAtLeast(8))
            /\ report'.level = "poor" <=> ~RatioAtLeast(5)
        /\ crawler = "drission" =>
            report'.level = "warning" <=> ~RatioAtLeast(8)]_vars

\* 4 comments of 5 expected were printed as a success by the Playwright
\* crawler
C27_Witness ==
    /\ crawler = "playwright"
    /\ crawl_pc = "save"
    /\ videos[1].comment_count = 5
    /\ Len(comments) = 4
    /\ report = [coverage |-> 80, level |-> "success"]

\* C28 (as claimed): DouyinAPICrawler.process_video logs the harvest at the
\* success level exactly when actual_count / expected_count >= 0.8, and at
\* the warning level for every ratio below.
C28_ApiLevelByRatio ==
    [][(CoverageDue /\ crawler = "api") =>
        /\ report'.level = "success" <=> RatioAtLeast(8)
        /\ report'.level = "warning" <=> ~RatioAtLeast(8)]_vars

\* C29 (as claimed): for a video that reports 0 comments, process_video of
\* the API crawler and of the Playwright crawler saves the video and ends
\* with 0 comments, a coverage of 100% and the success level.
C29_NothingExpected ==
    (/\ crawler \in {"api", "playwright"}
     /\ crawl_pc \in {"video_sleep", "video_done"}
     /\ video_i = 1
     /\ videos[1].comment_count = 0) =>
        /\ total_comments = 0
        /\ report.coverage = 100
        /\ report.level = "success"

\* the positions on the way to the next root-page call
ToRootCall == {"root_sleep", "root_head", "root_call"}

\* C30: once fetch_video_comments has received a root page whose has_more is
\* false, it issues no further root-page call: the way to the next root call
\* is entered only from a page whose has_more is set, and a call that is over
\* stays over.
C30_NoCallAfterLastPage ==
    [][/\ (pc \notin ToRootCall /\ pc' \in ToRootCall) =>
            resp.has_more /\ resp' = resp /\ pc' = "root_sleep"
       /\ Over => pc' = pc]_vars

\* the second root page had has_more false and the call returned
C30_Witness ==
    /\ Returned
    /\ exit = "no_more"
    /\ cursor = 1
    /\ ~resp.has_more
    /\ Len(comments) = 2

\* crawl_mix was given a range on the command line and has selected its videos
RangeSelected ==
    /\ crawler = "drission"
    /\ start > 0 \/ end > 0
    /\ total_original >= 1

\* C31: for a listing of total >= 1 videos and command-line values start,
\* end >= 0 that are not both 0, the videos crawl_mix keeps are those at the
\* positions start_idx..end_idx of the listing with 1 <= start_idx <= end_idx
\* <= total, each with the index of its position (a start or an end inside
\* the listing is taken as given, end = 0 means the last video); the loop
\* takes them one by one in this order, and a run that reaches the summary
\* has taken them all.
C31_RangeSelected ==
    /\ [](RangeSelected =>
            LET start_idx == videos[1].index
                end_idx == videos[Len(videos)].index
            IN  /\ 1 <= start_idx /\ start_idx <= end_idx
                /\ end_idx <= total_original
                /\ Len(videos) = end_idx - start_idx + 1
                /\ \A i \in 1..Len(videos) :
                        /\ videos[i].index = start_idx + i - 1
                        /\ videos[i].aweme_id = start_idx + i - 1
                /\ start \in 1..total_original => start_idx = start
                /\ start = 0 => start_idx = 1
                /\ end = 0 => end_idx = total_original
                /\ (end \in start_idx..total_original) => end_idx = end
                /\ video_i \in 1..Len(videos) + 1
                /\ crawl_exit = "done" => video_i = Len(videos) + 1)
    /\ [][RangeSelected => video_i' \in {video_i, video_i + 1}]_vars

\* of three videos the second and the third were asked for, and both were
\* handled
C31_Witness ==
    /\ RangeSelected
    /\ start = 2
    /\ end = 0
    /\ total_original = 3
    /\ crawl_exit = "done"
    /\ processed_videos = 2
    /\ videos[1].aweme_id = 2

\* what the coroutines have to add to a counter
RECURSIVE SumOfTasks(_, _)
SumOfTasks(amount(_), ts) ==
    IF ts = {} THEN 0
    ELSE LET t == CHOOSE x \in ts : TRUE
         IN  amount(tasks[t]) + SumOfTasks(amount, ts \ {t})

TaskReturned(k) == k.at \in {"done", "failed"}
RepliesOfTask(k) == k.replied
CommentsOfTask(k) == IF TaskReturned(k) THEN k.comments ELSE 0
ProcessedByTask(k) == IF k.at = "done" THEN 1 ELSE 0
FailedByTask(k) == IF k.at = "failed" THEN 1 ELSE 0

\* C32: when several harvests of one DouyinAPICrawler are interleaved at
\* their feed calls and sleeps, no update of the shared counters is lost:
\* total_replies is the sum of the lengths of all reply lists fetched,
\* total_comments the sum of the lengths of the lists returned, and
\* processed_videos and failed_videos count the coroutines that ended each way
C32_NoUpdateLost ==
    tasks # <<>> =>
        /\ total_replies = SumOfTasks(RepliesOfTask, DOMAIN tasks)
        /\ total_comments = SumOfTasks(CommentsOfTask, DOMAIN tasks)
        /\ processed_videos = SumOfTasks(ProcessedByTask, DOMAIN tasks)
        /\ failed_videos = SumOfTasks(FailedByTask, DOMAIN tasks)

\* a coroutine is suspended in its reply fetch while the counters have moved
\* on since it was suspended, and another one has already returned
C32_Witness ==
    /\ tasks # <<>>
    /\ \E t, u \in DOMAIN tasks :
        /\ tasks[t].at = "reply_sleep"
        /\ tasks[t].replies > 0
        /\ tasks[t].seen.total_replies < total_replies
        /\ tasks[t].seen.total_comments < total_comments
        /\ tasks[u].at = "done"
        /\ tasks[u].replied > 0

\* C33: on every way out of DrissionMixCrawler.get_video_comments (the list
\* returned, None returned for a subject that is not found, an exception or an
\* interruption) the listener is stopped, and no harvest opens a video page
\* with a listener left running
C33_ListenerStopped ==
    crawler = "drission" =>
        /\ pc \in {"returned", "returned_none", "raised"} => ~listening
        /\ pc = "open" => ~listening

\* the harvest of the second video was ended by an exception after records
\* had been read from the listener
C33_Witness ==
    /\ crawler = "drission"
    /\ crawl_pc = "harvest"
    /\ video_i = 2
    /\ pc = "returned"
    /\ exit = "exception"
    /\ Len(comments) > 0
    /\ ~listening

\* C34: for max_comments >= 1 the list returned by fetch_video_comments has at
\* most max_comments + 100 records, whatever the feed does: only the replies
\* of the last root appended can exceed the cap
C34_OvershootBounded ==
    (crawler = "api" /\ Returned /\ max_comments >= 1)
        => Len(comments) <= max_comments + ReplyLimit

\* a harvest with a cap of 1 returned one root and the 100 replies of its
\* thread
C34_Witness ==
    /\ crawler = "api"
    /\ Returned
    /\ max_comments = 1
    /\ Len(comments) = max_comments + ReplyLimit
    /\ exit = "cap"

\* C35 (as claimed): after a harvest stats['total_replies'] equals the number
\* of level-2 records of the list fetch_video_comments returned
C35_RepliesCounted ==
    (crawler = "api" /\ Returned)
        => total_replies = Cardinality(Level(comments, 2))

\* the videos the loop of crawl_mix is through with
Handled ==
    IF crawl_pc = "video_sleep" THEN video_i
    ELSE IF crawl_pc \in {"video", "harvest", "save", "finished"} THEN video_i - 1
    ELSE success_videos + failed_videos

\* C36: once the video loop of DrissionMixCrawler.crawl_mix has handled k
\* videos, success_videos + failed_videos = k, and every video that is
\* handled adds 1 to exactly one of the two counters, whether it was saved,
\* not found or ended by an exception
C36_OneCountPerVideo ==
    /\ [](crawler = "drission" => success_videos + failed_videos = Handled)
    /\ [][(crawler = "drission" /\ crawl_pc' = "video_sleep"
                /\ crawl_pc # "video_sleep")
            => \/ /\ success_videos' = success_videos + 1
                  /\ failed_videos' = failed_videos
               \/ /\ success_videos' = success_videos
                  /\ failed_videos' = failed_videos + 1]_vars

\* the loop is through two videos: one was saved, the other ended by an
\* exception
C36_Witness ==
    /\ crawler = "drission"
    /\ crawl_pc = "finished"
    /\ video_i = 3
    /\ success_videos = 1
    /\ failed_videos = 1
    /\ processed_videos = 1

\* C37: when process_single_video of MixCrawler finds the CSV of its video
\* already there, it issues no comment feed call and writes no file: the
\* video goes straight to the sleep of the loop, a file that was there before
\* the run is never replaced, and the collecting and the writing only ever
\* run for a folder without a file.  The folder number advances all the same.
C37_ExistingFileSkipped ==
    /\ [](crawler = "complete" /\ crawl_pc \in {"collect", "save"}
            => files[total_videos] = "none")
    /\ [][crawler = "complete" =>
            /\ \A i \in DOMAIN files : files[i] = "old" => files'[i] = "old"
            /\ (crawl_pc = "video" /\ crawl_pc' # "finished")
                    => total_videos' = total_videos + 1
            /\ (/\ crawl_pc = "video"
                /\ files[total_videos + 1] # "none"
                /\ crawl_pc' # "finished")
                    => /\ crawl_pc' = "video_sleep"
                       /\ pc' = pc
                       /\ files' = files]_vars

\* the first video was collected and written, the second one skipped for its
\* file
C37_Witness ==
    /\ crawler = "complete"
    /\ crawl_pc = "video_sleep"
    /\ total_videos = 2
    /\ files[1] = "new"
    /\ files[2] = "old"
    /\ crawl_comments

\* get_video_comments has been entered and has not been left
InScrollHarvest ==
    /\ crawler = "drission"
    /\ pc \in {"open", "open_captcha", "exists", "loop", "captcha", "verify",
               "final"}

\* C38: the scroll loop of get_video_comments never counts more rounds than
\* max(300, expected_count // 3), the rounds that end in the captcha pause
\* included; and when every call and every captcha pause returns, a harvest
\* that has been entered is left
C38_RoundsBounded ==
    /\ [](crawler = "drission"
            => scroll_round <= Max(300, expected_count \div 3))
    /\ (InScrollHarvest ~> ~InScrollHarvest)

\* the loop has ended on its round limit, 300 rounds having been counted
C38_Witness ==
    /\ crawler = "drission"
    /\ crawl_pc = "harvest"
    /\ pc = "returned"
    /\ exit = "rounds"
    /\ Len(comments) = upstream.ids

\* C39: the scroll loop gives up on `stall_rounds >= 6` only in a harvest
\* that went through a captcha pause; without one it is left through the
\* bottom check or another exit first
C39_StallNeedsCaptcha ==
    (crawler = "drission" /\ pc = "returned" /\ exit = "stall")
        => stdin_read > 0

\* a harvest that no comment reached gave up for its stalling, after one
\* captcha pause
C39_Witness ==
    /\ crawler = "drission"
    /\ pc = "returned"
    /\ exit = "stall"
    /\ stdin_read = 1
    /\ comments = <<>>
====
